---- MODULE Spec2Model ----
(***************************************************************************)
(* Webhook simulation and compliance verification harness of the medspa    *)
(* platform: scripts/e2e_with_video.py (transcript poller, compliance      *)
(* sequencer) and scripts/e2e_full_flow.py (webhook emitters).             *)
(*                                                                         *)
(* Three specifications share the variables below:                        *)
(*   SpecPoll   one call of a poller primitive against a backend that      *)
(*              appends messages to the transcript;                        *)
(*   SpecEmit   one call of a webhook emitter;                             *)
(*   SpecSuite  run_compliance_suite against a backend that answers each   *)
(*              delivered inbound SMS with a bounded number of replies.    *)
(*                                                                         *)
(* Time is counted in poll intervals (poll_s); a deadline is kept as the   *)
(* time remaining until it (deadline - time.time()).                       *)
(***************************************************************************)
EXTENDS Integers, Sequences, FiniteSets, TLC

VARIABLES
    transcript,   \* backend: the messages stored for the scenario phone, in order
    nextId,       \* backend: the next message id it assigns
    backend,      \* backend: the event it is answering and what it may still do
    ids,          \* harness: the cursor captured last ([m.id for m in msgs if m.id])
    capLen,       \* ghost: length of the transcript the cursor was captured from, -1 before
    call,         \* harness: the poller call in progress (locals of the function)
    em,           \* harness: the emitter call in progress
    pc,           \* harness: position in run_compliance_suite
    env,          \* harness: configuration read from the environment
    loc,          \* harness: locals of run_compliance_suite (ack1, ack2, ...)
    hist          \* ghost: what has happened in this run

vars == <<transcript, nextId, backend, ids, capLen, call, em, pc, env, loc, hist>>

-----------------------------------------------------------------------------
(* Bounds of the model *)

MaxFiller == 11      \* length of the long initial transcript of SpecPoll
MaxAppend == 2       \* messages the backend appends during SpecPoll
MaxTimeout == 2      \* largest timeout of a SpecPoll call, in poll intervals

-----------------------------------------------------------------------------
(* Strings: a body is a sequence of characters *)

EmptyId == 0         \* the id "" that str(m.get("id") or "") gives a message without id

PollS == 1           \* poll_s: one poll interval is the unit of time

TailLen == 10        \* last_msgs[-10:]

NoMsg == [id |-> EmptyId, role |-> "", kind |-> "", body |-> <<>>]

Min(a, b) == IF a < b THEN a ELSE b

Max(a, b) == IF a > b THEN a ELSE b

Range(s) == {s[i] : i \in 1..Len(s)}

\* want_contains in m.body
Contains(sub, body) ==
    \E i \in 0..(Len(body) - Len(sub)) :
        \A j \in 1..Len(sub) : body[i + j] = sub[j]

\* TranscriptMessage(id=str(m.get("id") or ""), ...): a raw message without an
\* id (or with a null id) gets the empty id
ParseMessage(raw) ==
    [id |-> IF raw.hasId THEN raw.id ELSE EmptyId,
     role |-> raw.role, kind |-> raw.kind, body |-> raw.body]

\* [m.id for m in msgs if m.id]
CaptureIds(msgs) == {msgs[i].id : i \in {j \in 1..Len(msgs) : msgs[j].id # EmptyId}}

\* last_msgs[-10:]
LastN(s, n) == SubSeq(s, Max(1, Len(s) - n + 1), Len(s))

-----------------------------------------------------------------------------
(* The predicate of wait_for_new_message / assert_no_new_messages *)

NoFilter == [kind |-> "", kinds |-> {}, role |-> "", roles |-> {}, contains |-> <<>>]

\* the chain of `continue` statements of the scan: TRUE when m reaches the
\* return (or the raise of assert_no_new_messages)
Matches(m, since, f) ==
    /\ ~(m.id # EmptyId /\ m.id \in since)
    /\ ~(f.kinds # {} /\ m.kind \notin f.kinds)
    /\ ~(f.kind # "" /\ f.kinds = {} /\ m.kind # f.kind)
    /\ ~(f.roles # {} /\ m.role \notin f.roles)
    /\ ~(f.role # "" /\ f.roles = {} /\ m.role # f.role)
    /\ ~(f.contains # <<>> /\ ~Contains(f.contains, m.body))

\* mutant of MatchesAssistant: only generic AI replies count as assistant traffic
MatchesAssistantAiOnly(m, since) ==
    /\ ~(m.id # EmptyId /\ m.id \in since)
    /\ m.role = "assistant"
    /\ m.kind = "ai_reply"

\* the scan of assert_no_new_assistant_messages
MatchesAssistant(m, since) ==
    /\ ~(m.id # EmptyId /\ m.id \in since)
    /\ m.role = "assistant"

\* mutant of CallMatches: assert_no_new_assistant_messages compares the role with
\* a value no message has
CallMatchesWrongRole(c, m) ==
    IF c.op = "assert_no_assistant"
    THEN ~(m.id # EmptyId /\ m.id \in c.since) /\ m.role = "ai"
    ELSE Matches(m, c.since, c.filt)

CallMatches(c, m) ==
    IF c.op = "assert_no_assistant" THEN MatchesAssistant(m, c.since)
    ELSE Matches(m, c.since, c.filt)

\* a scan that keeps the last message that passes
FirstMatchLast(c, msgs) ==
    LET hit == {i \in 1..Len(msgs) : CallMatches(c, msgs[i])}
    IN  IF hit = {} THEN 0 ELSE CHOOSE i \in hit : \A j \in hit : i >= j

\* for m in msgs: ... the index of the first message that passes, 0 if none
FirstMatch(c, msgs) ==
    LET hit == {i \in 1..Len(msgs) : CallMatches(c, msgs[i])}
    IN  IF hit = {} THEN 0 ELSE CHOOSE i \in hit : \A j \in hit : i <= j

NoEm ==
    [fn |-> "none", stage |-> "idle", url |-> "", ts |-> "", body |-> <<>>,
     signature |-> <<>>, sent |-> <<>>, http |-> 0, ret |-> FALSE]

IdleCall ==
    [op |-> "none", since |-> {}, filt |-> NoFilter, remaining |-> 0,
     status |-> "idle", result |-> NoMsg, msgs |-> <<>>, sample |-> <<>>,
     polls |-> 0, timedOut |-> FALSE, startLen |-> 0, at |-> ""]

\* entry of a poller function: deadline = time.time() + timeout_s; since = set(since_ids)
StartCall(op, since, f, timeout) ==
    [op |-> op, since |-> since, filt |-> f, remaining |-> timeout,
     status |-> "polling", result |-> NoMsg, msgs |-> <<>>, sample |-> <<>>,
     polls |-> 0, timedOut |-> FALSE, startLen |-> Len(transcript), at |-> pc]

\* mutant of PollResult: the assert_* functions look at one poll only and
\* return when it shows nothing
PollResultSinglePoll(c, msgs) ==
    LET i == FirstMatch(c, msgs)
    IN  IF i = 0
        THEN IF c.op = "wait"
             THEN [c EXCEPT !.msgs = msgs, !.polls = @ + 1, !.remaining = @ - PollS]
             ELSE [c EXCEPT !.msgs = msgs, !.polls = @ + 1, !.status = "returned"]
        ELSE IF c.op = "wait"
        THEN [c EXCEPT !.msgs = msgs, !.polls = @ + 1,
                       !.status = "returned", !.result = msgs[i]]
        ELSE [c EXCEPT !.msgs = msgs, !.polls = @ + 1,
                       !.status = "raised", !.result = msgs[i]]

\* an iteration during which the clock stands still
PollResultNoClock(c, msgs) ==
    LET i == FirstMatch(c, msgs)
    IN  IF i = 0
        THEN [c EXCEPT !.msgs = msgs, !.polls = (@ + 1) % 2]
        ELSE IF c.op = "wait"
        THEN [c EXCEPT !.msgs = msgs, !.polls = @ + 1,
                       !.status = "returned", !.result = msgs[i]]
        ELSE [c EXCEPT !.msgs = msgs, !.polls = @ + 1,
                       !.status = "raised", !.result = msgs[i]]

\* one iteration of `while time.time() < deadline`: fetch, scan, and either
\* return / raise on the first match or sleep one poll interval
PollResult(c, msgs) ==
    LET i == FirstMatch(c, msgs)
    IN  IF i = 0
        THEN [c EXCEPT !.msgs = msgs, !.polls = @ + 1, !.remaining = @ - PollS]
        ELSE IF c.op = "wait"
        THEN [c EXCEPT !.msgs = msgs, !.polls = @ + 1,
                       !.status = "returned", !.result = msgs[i]]
        ELSE [c EXCEPT !.msgs = msgs, !.polls = @ + 1,
                       !.status = "raised", !.result = msgs[i]]

\* mutant of DeadlineResult: a timeout returns a sentinel (None) instead of raising
DeadlineResultSentinel(c) == [c EXCEPT !.status = "returned", !.timedOut = TRUE]

\* the loop condition is false: wait_for_new_message raises with the tail of
\* last_msgs, the assert_* functions fall off their end and return None
DeadlineResult(c) ==
    IF c.op = "wait"
    THEN [c EXCEPT !.status = "raised", !.timedOut = TRUE,
                   !.sample = LastN(c.msgs, TailLen)]
    ELSE [c EXCEPT !.status = "returned"]

\* get_sms_transcript raises on a status other than 200; nothing catches it
FetchFailedResult(c) == [c EXCEPT !.status = "raised", !.polls = @ + 1]

Poll ==
    /\ call.status = "polling"
    /\ call.remaining > 0
    /\ call' = PollResult(call, transcript)
    /\ UNCHANGED <<transcript, nextId, backend, ids, capLen, em, pc, env, loc, hist>>

PollFetchFails ==
    /\ call.status = "polling"
    /\ call.remaining > 0
    /\ call' = FetchFailedResult(call)
    /\ UNCHANGED <<transcript, nextId, backend, ids, capLen, em, pc, env, loc, hist>>

Deadline ==
    /\ call.status = "polling"
    /\ call.remaining <= 0
    /\ call' = DeadlineResult(call)
    /\ UNCHANGED <<transcript, nextId, backend, ids, capLen, em, pc, env, loc, hist>>

-----------------------------------------------------------------------------
(* SpecPoll: the poller primitives called on arbitrary small inputs *)

PollShapes ==
    { [role |-> "assistant", kind |-> "ack", body |-> <<"a">>],
      [role |-> "assistant", kind |-> "ai_reply", body |-> <<"a", "b">>],
      [role |-> "assistant", kind |-> "first_contact_ack", body |-> <<"b">>],
      [role |-> "user", kind |-> "inbound", body |-> <<"a", "b">>] }

PollFilters ==
    { NoFilter,
      [NoFilter EXCEPT !.kind = "ack"],
      [NoFilter EXCEPT !.kinds = {"ack", "first_contact_ack"}],
      [NoFilter EXCEPT !.kind = "ai_reply", !.kinds = {"ack", "first_contact_ack"}],
      [NoFilter EXCEPT !.role = "assistant"],
      [NoFilter EXCEPT !.roles = {"assistant"}, !.role = "user"],
      [NoFilter EXCEPT !.contains = <<"b">>],
      [NoFilter EXCEPT !.kind = "ai_reply", !.roles = {"assistant"}, !.contains = <<"a", "b">>] }

\* the backend stores a message: it assigns the next id, or none
StoredMessage(shape, hasId, id) ==
    ParseMessage([hasId |-> hasId, id |-> id, role |-> shape.role,
                  kind |-> shape.kind, body |-> shape.body])

\* k old messages, all with ids
Filler(k) == [i \in 1..k |-> StoredMessage(
                 [role |-> "assistant", kind |-> "ai_reply", body |-> <<"a">>], TRUE, i)]

NoEnv == [demo_mode |-> FALSE, first_contact_reply |-> FALSE, skip_db_check |-> FALSE,
          fail_on_latency |-> FALSE, telnyx_secret |-> "tk", square_key |-> ""]

NoLoc == [ack1 |-> NoMsg, ack2 |-> NoMsg, last |-> NoMsg, conversation_id |-> "",
          inbound |-> NoMsg, audit |-> [db |-> "", count |-> 0, others |-> 0],
          lead_id |-> "", booking_intent_id |-> "", expected_amount_cents |-> 0,
          deposit_msg |-> NoMsg, confirm |-> NoMsg,
          lead_row |-> <<>>, pay_row |-> <<>>, booking_row |-> <<>>, timings |-> {}]

NoHist == [emits |-> 0, capEmits |-> 0, emitFailed |-> FALSE, lastText |-> "", raisedAt |-> "",
           lastMid |-> "", lastEvt |-> "", prevMid |-> "", prevEvt |-> "",
           emitLen |-> 0, error |-> <<>>, dbSoft |-> 0, http |-> 0, status |-> 0,
           signed |-> {}, slow |-> FALSE, log |-> <<>>, seen |-> {}]

\* turn: the inbound text being answered ("" when none), pos: how many replies of
\* its script are stored, faults: deviations from the contract still allowed,
\* lastMid: provider message id of the last delivered SMS
NoBackend == [turn |-> "", pos |-> 0, faults |-> 0, lastMid |-> ""]

InitPoll ==
    /\ \E k \in {0, MaxFiller} :
          /\ transcript = Filler(k)
          /\ nextId = k + 1
    /\ backend = [NoBackend EXCEPT !.faults = MaxAppend]
    /\ ids = {}
    /\ capLen = -1
    /\ call = IdleCall
    /\ em = NoEm
    /\ pc = "poll_only"
    /\ env = NoEnv
    /\ loc = NoLoc
    /\ hist = NoHist

\* _, msgs = get_sms_transcript(...); ids = [m.id for m in msgs if m.id]
PollCapture ==
    /\ pc = "poll_only"
    /\ call.status = "idle"
    /\ capLen = -1
    /\ ids' = CaptureIds(transcript)
    /\ capLen' = Len(transcript)
    /\ UNCHANGED <<transcript, nextId, backend, call, em, pc, env, loc, hist>>

\* the backend stores one more message
PollBackendAppend ==
    /\ pc = "poll_only"
    /\ backend.faults > 0
    /\ \E shape \in PollShapes, hasId \in BOOLEAN :
          transcript' = Append(transcript, StoredMessage(shape, hasId, nextId))
    /\ nextId' = nextId + 1
    /\ backend' = [backend EXCEPT !.faults = @ - 1]
    /\ UNCHANGED <<ids, capLen, call, em, pc, env, loc, hist>>

PollCallWait ==
    /\ pc = "poll_only"
    /\ call.status = "idle"
    /\ \E f \in PollFilters, t \in 0..MaxTimeout :
          call' = StartCall("wait", ids, f, t)
    /\ UNCHANGED <<transcript, nextId, backend, ids, capLen, em, pc, env, loc, hist>>

PollCallAssertNone ==
    /\ pc = "poll_only"
    /\ call.status = "idle"
    /\ \E f \in PollFilters, t \in 0..MaxTimeout :
          call' = StartCall("assert_none", ids, f, t)
    /\ UNCHANGED <<transcript, nextId, backend, ids, capLen, em, pc, env, loc, hist>>

PollCallAssertNoAssistant ==
    /\ pc = "poll_only"
    /\ call.status = "idle"
    /\ \E t \in 0..MaxTimeout :
          call' = StartCall("assert_no_assistant", ids, NoFilter, t)
    /\ UNCHANGED <<transcript, nextId, backend, ids, capLen, em, pc, env, loc, hist>>

NextPoll ==
    \/ PollCapture
    \/ PollBackendAppend
    \/ PollCallWait
    \/ PollCallAssertNone
    \/ PollCallAssertNoAssistant
    \/ Poll
    \/ PollFetchFails
    \/ Deadline

SpecPoll == InitPoll /\ [][NextPoll]_vars

LiveAppend == 1      \* messages the backend appends during LiveSpecPoll

\* the poller primitives called on a transcript that starts empty
InitPollLive ==
    /\ transcript = <<>>
    /\ nextId = 1
    /\ backend = [NoBackend EXCEPT !.faults = LiveAppend]
    /\ ids = {}
    /\ capLen = -1
    /\ call = IdleCall
    /\ em = NoEm
    /\ pc = "poll_only"
    /\ env = NoEnv
    /\ loc = NoLoc
    /\ hist = NoHist

\* the harness is a running process and every transcript fetch returns (with a
\* transcript or with an error): a poller call that can take a step takes one
LiveSpecPoll ==
    InitPollLive /\ [][NextPoll]_vars /\ WF_vars(Poll \/ PollFetchFails \/ Deadline)

-----------------------------------------------------------------------------
(* The webhook emitters of e2e_full_flow.py *)

NoResponse == -1     \* requests.post raised (connection failure, timeout): no status

HttpOutcomes == {200, 201, 204, 302, 400, 401, 403, 404, 500, NoResponse}

\* hmac.new(key, msg, digest): a keyed digest is kept symbolic, as its inputs
Hmac(alg, key, msg) == <<alg, key, msg>>

\* a signer that mixes the number of earlier computations into the digest
compute_telnyx_signature_counting(secret, ts, payload) ==
    <<"hex", Hmac("sha256", secret, <<ts, ".", payload, Cardinality(hist.signed)>>)>>

\* compute_telnyx_signature: HMAC-SHA256 over f"{timestamp}." + payload, hex
compute_telnyx_signature(secret, ts, payload) ==
    <<"hex", Hmac("sha256", secret, <<ts, ".", payload>>)>>

\* compute_square_signature: HMAC-SHA1 over webhook_url + body, base64
compute_square_signature(webhook_url, body, key) ==
    <<"base64", Hmac("sha1", key, <<webhook_url, body>>)>>

\* json.dumps(payload[, separators]).encode("utf-8"): the bytes are the payload
\* in the given serialization
JsonBytes(payload, separators) == <<separators, payload>>

EmitUrl(fn) ==
    CASE fn = "voice" -> "/webhooks/telnyx/voice"
      [] fn = "sms" -> "/webhooks/telnyx/messages"
      [] fn = "square" -> "/webhooks/square"

\* a request whose body is serialized once more for sending
EmitRequestReserialized(e) ==
    [url |-> e.url, data |-> JsonBytes(e.body[2], "resent"), ts |-> e.ts,
     signature |-> e.signature]

\* the HTTP request an emitter is about to send
EmitRequest(e) == [url |-> e.url, data |-> e.body, ts |-> e.ts, signature |-> e.signature]

\* the if/elif chain over resp.status_code, and the except branch
EmitterResult(fn, http) ==
    IF http = NoResponse THEN FALSE
    ELSE IF fn = "square"
    THEN http = 200 \/ http = 401
    ELSE http = 200 \/ http \in {401, 403}

\* mutant of AfterResponse: a failed delivery is sent again, once
AfterResponseRetry(e, http) ==
    IF ~EmitterResult(e.fn, http) /\ Len(e.sent) < 2
    THEN [e EXCEPT !.http = http, !.stage = "signed"]
    ELSE [e EXCEPT !.http = http, !.stage = "responded"]

\* requests.post has returned or raised: the status is looked at, nothing is resent
AfterResponse(e, http) == [e EXCEPT !.http = http, !.stage = "responded"]

\* send_telnyx_voice_webhook / send_telnyx_sms_webhook up to the signature
EmitTelnyxBuild(fn, payload, ts) ==
    /\ pc = "emit_only"
    /\ em.stage = "idle"
    /\ LET payload_bytes == JsonBytes(payload, "default")
       IN  em' = [em EXCEPT !.fn = fn, !.stage = "signed", !.url = EmitUrl(fn),
                            !.ts = ts, !.body = payload_bytes,
                            !.signature = compute_telnyx_signature(
                                              env.telnyx_secret, ts, payload_bytes)]
    /\ UNCHANGED <<transcript, nextId, backend, ids, capLen, call, pc, env, loc, hist>>

\* send_square_payment_webhook signing whatever the key is
EmitSquareBuildAlwaysSigned(payload) ==
    /\ pc = "emit_only"
    /\ em.stage = "idle"
    /\ LET webhook_url == EmitUrl("square")
           body_bytes == JsonBytes(payload, "compact")
       IN  em' = [em EXCEPT !.fn = "square", !.stage = "signed", !.url = webhook_url,
                            !.body = body_bytes,
                            !.signature = compute_square_signature(
                                              webhook_url, body_bytes, env.square_key)]
    /\ UNCHANGED <<transcript, nextId, backend, ids, capLen, call, pc, env, loc, hist>>

\* send_square_payment_webhook up to the signature
EmitSquareBuild(payload) ==
    /\ pc = "emit_only"
    /\ em.stage = "idle"
    /\ LET webhook_url == EmitUrl("square")
           body_bytes == JsonBytes(payload, "compact")
       IN  em' = [em EXCEPT !.fn = "square", !.stage = "signed", !.url = webhook_url,
                            !.body = body_bytes,
                            !.signature = IF env.square_key # ""
                                          THEN compute_square_signature(
                                                   webhook_url, body_bytes, env.square_key)
                                          ELSE <<>>]
    /\ UNCHANGED <<transcript, nextId, backend, ids, capLen, call, pc, env, loc, hist>>

\* resp = requests.post(...): the request goes out and the backend answers, or
\* the transport fails
EmitPost ==
    /\ pc = "emit_only"
    /\ em.stage = "signed"
    /\ \E http \in HttpOutcomes :
          em' = AfterResponse([em EXCEPT !.sent = Append(@, EmitRequest(em))], http)
    /\ UNCHANGED <<transcript, nextId, backend, ids, capLen, call, pc, env, loc, hist>>

\* return True / return False
EmitReturn ==
    /\ pc = "emit_only"
    /\ em.stage = "responded"
    /\ em' = [em EXCEPT !.stage = "done", !.ret = EmitterResult(em.fn, em.http)]
    /\ UNCHANGED <<transcript, nextId, backend, ids, capLen, call, pc, env, loc, hist>>

MaxCalls == 2        \* emitter calls of one run whose signatures are kept

\* the emitter has returned and the harness goes on to its next call; what the
\* signer was given and what it gave is kept in hist.signed
EmitNextCall ==
    /\ pc = "emit_only"
    /\ em.stage = "done"
    /\ Cardinality(hist.signed) < MaxCalls
    /\ em' = NoEm
    /\ hist' = [hist EXCEPT !.signed =
                    IF em.fn = "square"
                    THEN IF env.square_key = "" THEN @
                         ELSE @ \cup {[alg |-> "square", secret |-> env.square_key,
                                       at |-> em.url, body |-> em.body,
                                       signature |-> em.signature]}
                    ELSE @ \cup {[alg |-> "telnyx", secret |-> env.telnyx_secret,
                                  at |-> em.ts, body |-> em.body,
                                  signature |-> em.signature]}]
    /\ UNCHANGED <<transcript, nextId, backend, ids, capLen, call, pc, env, loc>>

EmitTexts == {"HELP", "Hello once"}

EmitIds == {"", "given"}

EmitTimes == {"t1", "t2"}

\* event_id = event_id or generate_event_id()
OrGenerated(id) == IF id = "" THEN "generated" ELSE id

EmitVoice ==
    \E eid \in EmitIds, cid \in EmitIds, ts \in EmitTimes :
        EmitTelnyxBuild("voice",
            [type |-> "call.hangup", id |-> OrGenerated(eid), payload_id |-> OrGenerated(cid),
             text |-> "no_answer"], ts)

EmitSms ==
    \E text \in EmitTexts, eid \in EmitIds, mid \in EmitIds, ts \in EmitTimes :
        EmitTelnyxBuild("sms",
            [type |-> "message.received", id |-> OrGenerated(eid),
             payload_id |-> OrGenerated(mid), text |-> text], ts)

EmitSquare ==
    \E amount \in {"5000", "7500"} :
        EmitSquareBuild(
            [type |-> "payment.completed", id |-> "generated", payload_id |-> "generated",
             text |-> amount])

InitEmit ==
    /\ transcript = <<>>
    /\ nextId = 1
    /\ backend = NoBackend
    /\ ids = {}
    /\ capLen = -1
    /\ call = IdleCall
    /\ em = NoEm
    /\ pc = "emit_only"
    /\ env \in {[NoEnv EXCEPT !.telnyx_secret = t, !.square_key = q] :
                   t \in {"tk"}, q \in {"", "sq"}}
    /\ loc = NoLoc
    /\ hist = NoHist

NextEmit ==
    \/ EmitVoice
    \/ EmitSms
    \/ EmitSquare
    \/ EmitPost
    \/ EmitReturn
    \/ EmitNextCall

SpecEmit == InitEmit /\ [][NextEmit]_vars

\* C6 (as claimed): a delivery answered with a status outside 2xx is reported to
\* the caller as failure, by every emitter.
C6_Non2xxReportedAsFailure ==
    (pc = "emit_only" /\ em.stage = "done" /\ em.http # NoResponse
        /\ ~(em.http >= 200 /\ em.http <= 299))
    => em.ret = FALSE

\* C7: a call of an emitter never sends more than one request, and when it has
\* returned it has sent exactly one, the one it signed.
C7_OnePostPerCall ==
    pc = "emit_only" =>
        /\ Len(em.sent) <= 1
        /\ em.stage \in {"responded", "done"} =>
              /\ Len(em.sent) = 1
              /\ em.sent[1] = EmitRequest(em)

\* an emitter that got a 500, or no response at all, has returned after one POST
C7_Witness ==
    /\ pc = "emit_only"
    /\ em.stage = "done"
    /\ em.http \in {500, NoResponse}
    /\ ~em.ret
    /\ Len(em.sent) = 1

\* C22: for every Telnyx and Square emission the signature is computed over the
\* very bytes that are transmitted as the request body, the Telnyx-Timestamp
\* header is the timestamp of the signature, and the Square signature is bound
\* to the URL the POST is sent to.
C22_SignedBytesAreSentBytes ==
    pc = "emit_only" =>
        \A i \in 1..Len(em.sent) :
            LET r == em.sent[i]
            IN  /\ r.url = EmitUrl(em.fn)
                /\ em.fn \in {"voice", "sms"} =>
                       r.signature = compute_telnyx_signature(env.telnyx_secret, r.ts, r.data)
                /\ (em.fn = "square" /\ env.square_key # "") =>
                       r.signature = compute_square_signature(r.url, r.data, env.square_key)

\* a signed Square request has gone out
C22_Witness ==
    /\ pc = "emit_only"
    /\ em.fn = "square"
    /\ env.square_key # ""
    /\ Len(em.sent) = 1
    /\ em.sent[1].signature # <<>>

\* C23: without a Square secret send_square_payment_webhook sends the
\* X-Square-Signature header with an empty string and still performs the POST;
\* with a secret the header is the computed signature and never empty.
C23_EmptySignatureWithoutSecret ==
    (pc = "emit_only" /\ em.fn = "square") =>
        /\ em.stage \in {"responded", "done"} => Len(em.sent) = 1
        /\ \A i \in 1..Len(em.sent) :
              IF env.square_key = ""
              THEN em.sent[i].signature = <<>>
              ELSE /\ em.sent[i].signature # <<>>
                   /\ em.sent[i].signature =
                         compute_square_signature(EmitUrl("square"), em.body, env.square_key)

\* an unsigned Square request was posted and answered
C23_Witness ==
    /\ pc = "emit_only"
    /\ em.fn = "square"
    /\ env.square_key = ""
    /\ em.stage = "done"
    /\ Len(em.sent) = 1
    /\ em.sent[1].signature = <<>>

-----------------------------------------------------------------------------
(* run_compliance_suite of e2e_with_video.py, and the backend under test *)

MaxFaults == 1       \* deviations of the environment from its contract, per run

MaxWaitPolls == 2    \* polls of one wait in SpecSuite (the timeouts are 10 and more)

IdBlock == 100       \* the ids the backend assigns after a purge start a new block

\* str.strip()
Strip(b) ==
    LET keep == {i \in 1..Len(b) : b[i] # " "}
    IN  IF keep = {} THEN <<>>
        ELSE SubSeq(b, CHOOSE i \in keep : \A j \in keep : i <= j,
                       CHOOSE i \in keep : \A j \in keep : i >= j)

\* str.lower(): "M" is the one upper-case character of the model
Lower(b) == [i \in 1..Len(b) |-> IF b[i] = "M" THEN "m" ELSE b[i]]

\* the configured and literal texts, one character each
ExpectedHelp == <<"h">>      \* TELNYX_HELP_REPLY
ExpectedStop == <<"s">>      \* TELNYX_STOP_REPLY
ExpectedStart == <<"b">>     \* TELNYX_START_REPLY
ExpectedGuard == <<"g">>     \* 'For your security, please do not send credit card details by text.'
Deflection == <<"m">>        \* "can't provide medical advice"
Redacted == <<"R">>          \* "[REDACTED]"

Shape(role, kind, body) == [role |-> role, kind |-> kind, body |-> body]

AckKinds == [NoFilter EXCEPT !.kinds = {"ack", "first_contact_ack"}, !.roles = {"assistant"}]

KindIs(k) == [NoFilter EXCEPT !.kind = k]

Stp(at, op, line) ==
    [at |-> at, op |-> op, line |-> line, prog |-> "suite", demo |-> FALSE, text |-> "", mid |-> "",
     filt |-> NoFilter, timeout |-> 0, into |-> "", check |-> "", event |-> "", evt |-> ""]

\* Variant: every emission reuses one wrapper event id.
EmitSameEvent(at, line, text, mid, evt) ==
    [Stp(at, "emit", line) EXCEPT !.text = text, !.mid = mid, !.evt = "evt_ci_first"]

\* base.send_telnyx_sms_webhook(text, telnyx_message_id=mid, event_id=evt)
Emit(at, line, text, mid, evt) ==
    [Stp(at, "emit", line) EXCEPT !.text = text, !.mid = mid, !.evt = evt]

Wait(at, line, f, t, into) ==
    [Stp(at, "wait", line) EXCEPT !.filt = f, !.timeout = t, !.into = into]

AssertNone(at, line, f, t) == [Stp(at, "assert_none", line) EXCEPT !.filt = f, !.timeout = t]

AssertNoAssistant(at, line, t) == [Stp(at, "assert_no_assistant", line) EXCEPT !.timeout = t]

Check(at, line, what) == [Stp(at, "check", line) EXCEPT !.check = what]

Audit(at, line, event) == [Stp(at, "audit", line) EXCEPT !.event = event]

Demo(step) == [step EXCEPT !.demo = TRUE]

\* the statements of run_compliance_suite, in order
Program ==
    << Stp("start", "precheck", 315),
       Stp("purge0", "purge", 325),
       Stp("fc1_cap", "capture", 326),
       Emit("fc1_emit", 331, "HI", "msg_ci_first", "evt_ci_first"),
       Wait("fc1_wait", 336, AckKinds, 20, "ack1"),
       Check("fc1_check", 346, "fc1"),
       Stp("fc2_cap", "capture", 351),
       Emit("fc2_emit", 355, "FOLLOWUP", "msg_ci_second", "evt_ci_second"),
       Wait("fc2_wait", 360, AckKinds, 20, "ack2"),
       Check("fc2_check", 370, "fc2"),
       Stp("help_cap", "capture", 374),
       Emit("help_emit", 377, "HELP", "msg_help", "evt_help"),
       Wait("help_wait", 382, KindIs("help_ack"), 10, "last"),
       Check("help_check", 384, "help"),
       Stp("stop_cap", "capture", 388),
       Emit("stop_emit", 391, "STOP", "msg_stop", "evt_stop"),
       Wait("stop_wait", 396, KindIs("stop_ack"), 10, "last"),
       Check("stop_check", 398, "stop"),
       Stp("after_cap", "capture", 401),
       Emit("after_emit", 404, "AFTER_STOP", "msg_after_stop", "evt_after_stop"),
       AssertNoAssistant("after_assert", 409, 6),
       Stp("start_cap", "capture", 412),
       Emit("start_emit", 415, "START", "msg_start", "evt_start"),
       Wait("start_wait", 420, KindIs("start_ack"), 10, "last"),
       Check("start_check", 422, "start"),
       Demo(Stp("dstop_cap", "capture", 427)),
       Demo(Emit("dstop_emit", 430, "STOP", "msg_stop_2", "evt_stop_2")),
       Demo(Wait("dstop_wait", 435, KindIs("stop_ack"), 10, "")),
       Demo(Stp("yes_cap", "capture", 437)),
       Demo(Emit("yes_emit", 440, "YES", "msg_yes", "evt_yes")),
       Demo(Wait("yes_wait", 445, KindIs("start_ack"), 10, "last")),
       Demo(Check("yes_check", 446, "start")),
       Demo(Stp("yes_cap2", "capture", 448)),
       Demo(AssertNone("yes_assert", 450, KindIs("ai_reply"), 6)),
       Stp("pci_purge", "purge", 453),
       Stp("pci_cap", "capture", 454),
       Emit("pci_emit", 457, "PAN", "msg_pan", "evt_pan"),
       Wait("pci_wait", 462, KindIs("pci_guardrail"), 10, "last"),
       Check("pci_check", 464, "pci"),
       Stp("pci_cap2", "capture", 466),
       AssertNone("pci_assert", 468, KindIs("ai_reply"), 6),
       Stp("med_purge", "purge", 471),
       Stp("med_cap", "capture", 472),
       Emit("med_emit", 475, "MEDICAL", "msg_medical", "evt_medical"),
       Wait("med_wait_ack", 480, AckKinds, 20, ""),
       Wait("med_wait_reply", 490, KindIs("ai_reply"), 120, "last"),
       Check("med_check", 491, "deflect"),
       Stp("med_inbound", "inbound", 493),
       Audit("med_audit", 498, "compliance.medical_advice_refused"),
       Stp("phi_purge", "purge", 501),
       Stp("phi_cap", "capture", 502),
       Emit("phi_emit", 505, "PHI", "msg_phi", "evt_phi"),
       Wait("phi_wait_ack", 510, AckKinds, 20, ""),
       Wait("phi_wait_reply", 520, KindIs("ai_reply"), 120, "last"),
       Check("phi_check", 521, "deflect"),
       Stp("phi_inbound", "inbound", 523),
       Audit("phi_audit", 528, "compliance.phi_detected"),
       Stp("dup_purge", "purge", 531),
       Stp("dup_cap", "capture", 532),
       Emit("dup_emit1", 536, "DUP", "msg_dup", "evt_dup_1"),
       Wait("dup_wait_ack", 537, AckKinds, 20, ""),
       Wait("dup_wait_reply", 547, KindIs("ai_reply"), 120, ""),
       Stp("dup_cap2", "capture", 548),
       Emit("dup_emit2", 551, "DUP", "msg_dup", "evt_dup_2"),
       AssertNoAssistant("dup_assert", 553, 6) >>

\* a statement of run_happy_path
HP(step) == [step EXCEPT !.prog = "happy"]

EmitChecked(at, line, fn, text) == [Stp(at, "emit_checked", line) EXCEPT !.text = text, !.mid = fn]

Query(at, line, what) == [Stp(at, "query", line) EXCEPT !.check = what]

AnyAck == [NoFilter EXCEPT !.kinds = {"ack", "first_contact_ack"}]

\* the statements of run_happy_path, in order
HappyProgram ==
    << HP(Stp("hp_start", "skipcheck", 564)),
       HP(Stp("hp_purge", "purge", 567)),
       HP(Stp("hp_seed", "seed", 570)),
       HP(Stp("hp_lead", "create_lead", 573)),
       HP(Stp("hp_voice_cap", "capture", 589)),
       HP(EmitChecked("hp_voice_emit", 592, "voice", "VOICE")),
       HP(Wait("hp_voice_wait", 594, KindIs("voice_ack"), 20, "")),
       HP(Stp("hp_sms1_cap", "capture", 597)),
       HP(Emit("hp_sms1_emit", 601, "HP1", "msg_hp_1", "evt_hp_1")),
       HP(Wait("hp_sms1_ack", 606, AnyAck, 20, "")),
       HP(Wait("hp_sms1_reply", 615, KindIs("ai_reply"), 240, "")),
       HP(Stp("hp_sms1_latency", "latency", 616)),
       HP(Stp("hp_sms2_cap", "capture", 619)),
       HP(Emit("hp_sms2_emit", 623, "HP2", "msg_hp_2", "evt_hp_2")),
       HP(Wait("hp_sms2_ack", 628, AnyAck, 20, "")),
       HP(Wait("hp_sms2_reply", 637, KindIs("ai_reply"), 240, "")),
       HP(Stp("hp_sms2_latency", "latency", 638)),
       HP(Stp("hp_sms3_cap", "capture", 641)),
       HP(Emit("hp_sms3_emit", 645, "HP3", "msg_hp_3", "evt_hp_3")),
       HP(Wait("hp_sms3_ack", 650, AnyAck, 20, "")),
       HP(Wait("hp_sms3_reply", 659, KindIs("ai_reply"), 240, "")),
       HP(Stp("hp_sms3_latency", "latency", 660)),
       HP(Wait("hp_deposit_wait", 663, KindIs("deposit_link"), 240, "deposit_msg")),
       HP(Check("hp_deposit_check", 664, "http")),
       HP(Check("hp_lead_check", 668, "lead_id")),
       HP(Stp("hp_payment_id", "payment_id", 670)),
       HP(Stp("hp_amount", "amount", 674)),
       HP(Stp("hp_pay_cap", "capture", 687)),
       HP(EmitChecked("hp_square_emit", 690, "square", "SQUARE")),
       HP(Wait("hp_confirm_wait", 694, KindIs("payment_confirmation"), 240, "confirm")),
       HP(Check("hp_confirm_check", 695, "confirm")),
       HP(Query("hp_lead_row", 713, "lead")),
       HP(Query("hp_pay_row", 722, "pay")),
       HP(Query("hp_booking_row", 731, "booking")),
       HP(Stp("hp_timings", "write", 750)) >>

Steps == Program \o HappyProgram

Labels == {Steps[i].at : i \in 1..Len(Steps)}

IndexOf(l) == CHOOSE i \in 1..Len(Steps) : Steps[i].at = l

\* the statement after l in a run with DEMO_MODE as given: the `if demo_mode:`
\* block is skipped without it; falling off the end is a normal return
After(l, demo_mode) ==
    LET later == {i \in (IndexOf(l) + 1)..Len(Steps) :
                     /\ Steps[i].prog = Steps[IndexOf(l)].prog
                     /\ Steps[i].demo => demo_mode}
    IN  IF later = {} THEN "done"
        ELSE Steps[CHOOSE i \in later : \A j \in later : i <= j].at

\* the two tables, by label
StepAt == [l \in Labels |-> Steps[IndexOf(l)]]

NextAt == [l \in Labels |-> [demo_mode \in BOOLEAN |-> After(l, demo_mode)]]

\* the statement after l that this run executes
NextLabel(l) == NextAt[l][env.demo_mode]

InSuite == pc \in Labels

Here == StepAt[pc]

\* timeout_s in poll intervals of poll_s = 0.6 s, cut at the bound of the model
Ticks(timeout_s) == Min(MaxWaitPolls, (timeout_s * 10) \div 6)

\* raise RuntimeError(...): nothing in run_compliance_suite catches it
Raise == /\ pc' = "raised"
         /\ hist' = [hist EXCEPT !.raisedAt = pc]

\* raise RuntimeError(f"... Expected: {expected!r} Actual: {actual!r}")
RaiseWith(values) ==
    /\ pc' = "raised"
    /\ hist' = [hist EXCEPT !.raisedAt = pc, !.error = values]

Goto(l) == pc' = l

-----------------------------------------------------------------------------
(* The backend, as far as the harness can see it *)

FirstAck == IF env.first_contact_reply THEN "first_contact_ack" ELSE "ack"

Http == <<"u">>             \* "http"

\* the replies the contract of section 4.5 asks of the backend, per inbound text
Script(text) ==
    CASE text \in {"HI", "MEDICAL", "PHI", "DUP", "HP1"} ->
            << Shape("assistant", FirstAck, <<"k">>),
               Shape("assistant", "ai_reply",
                     IF text \in {"MEDICAL", "PHI"} THEN <<"M", "x">> ELSE <<"x">>) >>
      [] text \in {"FOLLOWUP", "HP2"} ->
            << Shape("assistant", "ack", <<"k">>), Shape("assistant", "ai_reply", <<"x">>) >>
      [] text = "VOICE" -> << Shape("assistant", "voice_ack", <<"k">>) >>
      [] text = "HP3" ->
            << Shape("assistant", "ack", <<"k">>), Shape("assistant", "ai_reply", <<"x">>),
               Shape("assistant", "deposit_link", <<"x">> \o Http) >>
      [] text = "SQUARE" -> << Shape("assistant", "payment_confirmation", <<"P", "x">>) >>
      [] text = "HELP" -> << Shape("assistant", "help_ack", ExpectedHelp) >>
      [] text = "STOP" -> << Shape("assistant", "stop_ack", ExpectedStop) >>
      [] text \in {"START", "YES"} -> << Shape("assistant", "start_ack", ExpectedStart) >>
      [] text = "PAN" -> << Shape("assistant", "pci_guardrail", ExpectedGuard \o <<"x">>) >>
      [] OTHER -> << >>

\* what a backend that breaks the contract may store instead, or in addition
FaultMenu(text) ==
    { Shape("assistant", "first_contact_ack", <<"k">>),
      Shape("assistant", "ai_reply", <<"x">>) }
    \cup (CASE text \in {"HI", "AFTER_STOP"} -> { Shape("assistant", "ack", <<"k">>) }
            [] text = "HELP" -> { Shape("assistant", "help_ack", <<"h", "x">>),
                                  Shape("assistant", "help_ack", <<" ", "h">>) }
            [] text = "STOP" -> { Shape("assistant", "stop_ack", <<"s", "x">>) }
            [] text \in {"START", "YES"} -> { Shape("assistant", "start_ack", <<"b", "x">>) }
            [] text = "PAN" -> { Shape("assistant", "pci_guardrail", <<"x">>) }
            [] text = "HP3" -> { Shape("assistant", "deposit_link", <<"x">>) }
            [] text = "SQUARE" -> { Shape("assistant", "payment_confirmation", <<"x">>),
                                    Shape("assistant", "payment_confirmation", <<"p">>) }
            [] OTHER -> {})

IsCall(step) == step.op \in {"wait", "assert_none", "assert_no_assistant"}

\* the steps of the harness that neither read nor change the transcript or the
\* webhook endpoint: checks of locals, and the database steps, whose outcome is
\* drawn by the step itself
LocalOps == {"check", "skipcheck", "precheck", "seed", "create_lead", "latency",
             "payment_id", "amount", "query", "write", "audit"}

\* The backend runs beside the harness.  Its steps are interleaved with the steps
\* of the harness that read or change what the two share (the transcript, the
\* webhook endpoint); a step of the harness in LocalOps, and the entry or the
\* exit of a poller call, commutes with every step of the backend, so the
\* backend is scheduled before the shared steps only.
Running ==
    /\ InSuite
    /\ Here.op \notin LocalOps
    /\ IsCall(Here) => (call.at = pc /\ call.status = "polling")

\* the backend stores the next reply of the script of the event it is answering
BackendReply ==
    /\ Running
    /\ backend.turn # ""
    /\ backend.pos < Len(Script(backend.turn))
    /\ transcript' = Append(transcript,
                            StoredMessage(Script(backend.turn)[backend.pos + 1], TRUE, nextId))
    /\ nextId' = nextId + 1
    /\ backend' = [backend EXCEPT !.pos = @ + 1]
    /\ UNCHANGED <<ids, capLen, call, em, pc, env, loc, hist>>

\* the backend stores a message the contract does not allow at this point
BackendFault ==
    /\ Running
    /\ backend.turn # ""
    /\ backend.faults > 0
    /\ \E shape \in FaultMenu(backend.turn) :
          transcript' = Append(transcript, StoredMessage(shape, TRUE, nextId))
    /\ nextId' = nextId + 1
    /\ backend' = [backend EXCEPT !.faults = @ - 1]
    /\ UNCHANGED <<ids, capLen, call, em, pc, env, loc, hist>>

\* the stored body of an inbound SMS.  how: "ok" the contract (health texts are
\* stored as the sentinel), "raw" unredacted, "padded" the sentinel with
\* whitespace around it
InboundBody(text, how) ==
    IF text \notin {"MEDICAL", "PHI"} \/ how = "raw" THEN <<"i">>
    ELSE IF how = "padded" THEN Redacted \o <<" ">>
    ELSE Redacted

-----------------------------------------------------------------------------
(* The steps of the suite *)

SuiteOutcomes == {200, 401, 500, NoResponse}

\* what run_psql hands back: None ("none"), a process that exited non-zero
\* ("error"), or one that exited with 0 ("ok")
DbOutcomes == {"none", "error", "ok"}

\* seed_hosted_number of e2e_full_flow.py: True when the insert succeeded, and
\* True ("Non-fatal") when run_psql returned None, exited non-zero or raised
seed_hosted_number(db) == IF db = "ok" THEN TRUE ELSE TRUE

\* a database step whose run_psql failed and which went on: the failure uses up
\* one deviation of the environment
DbSoftFailure(db) ==
    /\ db # "ok" => backend.faults > 0
    /\ backend' = [backend EXCEPT !.faults = IF db = "ok" THEN @ ELSE @ - 1]
    /\ hist' = [hist EXCEPT !.dbSoft = IF db = "ok" THEN @ ELSE @ + 1]

\* lines 315-319: SKIP_DB_CHECK set, or seed_hosted_number() false
SuitePrecheck ==
    /\ InSuite /\ Here.op = "precheck"
    /\ IF env.skip_db_check
       THEN Raise /\ UNCHANGED backend
       ELSE \E db \in DbOutcomes :
               IF ~seed_hosted_number(db)
               THEN Raise /\ UNCHANGED backend
               ELSE Goto(NextLabel(pc)) /\ DbSoftFailure(db)
    /\ UNCHANGED <<transcript, nextId, ids, capLen, call, em, env, loc>>

\* purge_phone: DELETE; any status but 200 and 204 raises
PurgeOk(status) == status \in {200, 204}

SuitePurge ==
    /\ InSuite /\ Here.op = "purge"
    /\ \E status \in {200, 204, 404, 500} :
          /\ status = 404 => transcript = <<>>
          /\ IF PurgeOk(status)
             THEN /\ transcript' = <<>>
                  /\ nextId' = ((nextId - 1) \div IdBlock + 1) * IdBlock + 1
                  /\ backend' = [backend EXCEPT !.turn = "", !.pos = 0, !.lastMid = ""]
                  \* the locals of the phase that ended are dead
                  /\ loc' = NoLoc
                  /\ call' = IdleCall
                  /\ Goto(NextLabel(pc))
                  /\ UNCHANGED hist
             ELSE /\ pc' = "raised"
                  /\ hist' = [hist EXCEPT !.raisedAt = pc, !.status = status]
                  /\ UNCHANGED <<transcript, nextId, backend, loc, call>>
    /\ UNCHANGED <<ids, capLen, em, env>>

\* _, msgs = get_sms_transcript(...); ids = [m.id for m in msgs if m.id]
SuiteCapture ==
    /\ InSuite /\ Here.op = "capture"
    /\ \/ /\ ids' = CaptureIds(transcript)
          /\ capLen' = Len(transcript)
          /\ hist' = [hist EXCEPT !.capEmits = hist.emits]
          /\ Goto(NextLabel(pc))
       \/ /\ Raise
          /\ UNCHANGED <<ids, capLen>>
    /\ UNCHANGED <<transcript, nextId, backend, call, em, env, loc>>

\* base.send_telnyx_sms_webhook(text, telnyx_message_id=..., event_id=...): the
\* value it returns is dropped.  how: what the backend does with a delivered
\* event: "ok" keeps the contract (a duplicate is not processed, a health text
\* is stored redacted); "again" processes a duplicate once more; "raw" and
\* "padded" as in InboundBody; "unstored" answers a health text without
\* storing it
SuiteEmit ==
    /\ InSuite /\ Here.op = "emit"
    /\ \E http \in SuiteOutcomes, how \in {"ok", "again", "raw", "padded", "unstored"} :
          LET ret == EmitterResult("sms", http)
              duplicate == Here.mid = backend.lastMid
              health == Here.text \in {"MEDICAL", "PHI"}
              processed == IF duplicate THEN how = "again" ELSE TRUE
              inbound == StoredMessage(Shape("user", "inbound",
                                             InboundBody(Here.text, how)), TRUE, nextId)
          IN  /\ hist' = [hist EXCEPT !.emits = @ + 1, !.lastText = Here.text,
                                      !.emitFailed = @ \/ ~ret,
                                      !.prevMid = hist.lastMid, !.prevEvt = hist.lastEvt,
                                      !.lastMid = Here.mid, !.lastEvt = Here.evt,
                                      !.emitLen = Len(transcript),
                                      !.log = Append(@, [at |-> pc, text |-> Here.text,
                                                         evt |-> Here.evt,
                                                         mid |-> Here.mid])]
              /\ IF http = 200
                 THEN /\ how = "again" => duplicate
                      /\ how \in {"raw", "padded", "unstored"} => (health /\ ~duplicate)
                      /\ how # "ok" => backend.faults > 0
                      /\ IF processed
                         THEN /\ IF how = "unstored"
                                 THEN UNCHANGED <<transcript, nextId>>
                                 ELSE /\ transcript' = Append(transcript, inbound)
                                      /\ nextId' = nextId + 1
                              /\ backend' = [backend EXCEPT
                                     !.turn = Here.text, !.pos = 0, !.lastMid = Here.mid,
                                     !.faults = IF how = "ok" THEN @ ELSE @ - 1]
                         ELSE /\ backend' = [backend EXCEPT !.turn = "", !.pos = 0]
                              /\ UNCHANGED <<transcript, nextId>>
                 ELSE /\ how = "ok"
                      /\ backend.faults > 0
                      /\ backend' = [backend EXCEPT !.turn = "", !.pos = 0, !.faults = @ - 1]
                      /\ UNCHANGED <<transcript, nextId>>
    /\ Goto(NextLabel(pc))
    /\ UNCHANGED <<ids, capLen, call, em, env, loc>>

\* the call of wait_for_new_message / assert_no_new_messages /
\* assert_no_new_assistant_messages with the cursor captured last
SuiteCallStart ==
    /\ InSuite /\ Here.op \in {"wait", "assert_none", "assert_no_assistant"}
    /\ call.at # pc
    /\ call' = StartCall(Here.op, ids, Here.filt, Ticks(Here.timeout))
    /\ UNCHANGED <<transcript, nextId, backend, ids, capLen, em, pc, env, loc, hist>>

\* Variant: a call that raised is caught and the suite goes on.
SuiteCallDoneSwallowingRaise ==
    /\ InSuite /\ Here.op \in {"wait", "assert_none", "assert_no_assistant"}
    /\ call.at = pc
    /\ call.status \in {"returned", "raised"}
    /\ IF call.status = "raised"
       THEN Goto(NextLabel(pc)) /\ UNCHANGED <<loc, hist>>
       ELSE /\ Goto(NextLabel(pc))
            /\ loc' = CASE Here.into = "ack1" -> [loc EXCEPT !.ack1 = call.result]
                        [] Here.into = "ack2" -> [loc EXCEPT !.ack2 = call.result]
                        [] Here.into = "last" -> [loc EXCEPT !.last = call.result]
                        [] Here.into = "deposit_msg" -> [loc EXCEPT !.deposit_msg = call.result]
                        [] Here.into = "confirm" -> [loc EXCEPT !.confirm = call.result]
                        [] OTHER -> loc
            /\ hist' = IF Here.op = "wait"
                       THEN [hist EXCEPT !.seen = @ \cup {[n |-> Len(hist.log),
                                                          kind |-> call.result.kind]}]
                       ELSE hist
    /\ UNCHANGED <<transcript, nextId, backend, ids, capLen, call, em, env>>

\* the call has returned (its value is bound to a local) or raised
SuiteCallDone ==
    /\ InSuite /\ Here.op \in {"wait", "assert_none", "assert_no_assistant"}
    /\ call.at = pc
    /\ call.status \in {"returned", "raised"}
    /\ IF call.status = "raised"
       THEN Raise /\ UNCHANGED loc
       ELSE /\ Goto(NextLabel(pc))
            /\ loc' = CASE Here.into = "ack1" -> [loc EXCEPT !.ack1 = call.result]
                        [] Here.into = "ack2" -> [loc EXCEPT !.ack2 = call.result]
                        [] Here.into = "last" -> [loc EXCEPT !.last = call.result]
                        [] Here.into = "deposit_msg" -> [loc EXCEPT !.deposit_msg = call.result]
                        [] Here.into = "confirm" -> [loc EXCEPT !.confirm = call.result]
                        [] OTHER -> loc
            /\ hist' = IF Here.op = "wait"
                       THEN [hist EXCEPT !.seen = @ \cup {[n |-> Len(hist.log),
                                                          kind |-> call.result.kind]}]
                       ELSE hist
    /\ UNCHANGED <<transcript, nextId, backend, ids, capLen, call, em, env>>

\* expected_help, expected_stop, expected_start
Expected(what) ==
    CASE what = "help" -> ExpectedHelp
      [] what = "stop" -> ExpectedStop
      [] what = "start" -> ExpectedStart
      [] OTHER -> <<>>

\* mutant of CheckFails: the three texts are looked for inside the reply
CheckFailsBySubstring(what) ==
    CASE what = "fc1" -> env.demo_mode /\ env.first_contact_reply
                         /\ loc.ack1.kind # "first_contact_ack"
      [] what = "fc2" -> loc.ack1.kind = "first_contact_ack"
                         /\ loc.ack2.kind = "first_contact_ack"
      [] what \in {"help", "stop", "start"} -> ~Contains(Expected(what), loc.last.body)
      [] what = "pci" -> ~Contains(ExpectedGuard, loc.last.body)
      [] what = "deflect" -> ~Contains(Deflection, Lower(loc.last.body))
      [] what = "http" -> ~Contains(Http, loc.deposit_msg.body)
      [] what = "lead_id" -> loc.lead_id = ""
      [] what = "confirm" -> /\ ~Contains(<<"P">>, loc.confirm.body)
                             /\ ~Contains(<<"p">>, loc.confirm.body)

\* the `if ...: raise RuntimeError` after a wait
CheckFails(what) ==
    CASE what = "fc1" -> env.demo_mode /\ env.first_contact_reply
                         /\ loc.ack1.kind # "first_contact_ack"
      [] what = "fc2" -> loc.ack1.kind = "first_contact_ack"
                         /\ loc.ack2.kind = "first_contact_ack"
      [] what \in {"help", "stop", "start"} ->
            Strip(loc.last.body) # Strip(Expected(what))
      [] what = "pci" -> ~Contains(ExpectedGuard, loc.last.body)
      [] what = "deflect" -> ~Contains(Deflection, Lower(loc.last.body))
      [] what = "http" -> ~Contains(Http, loc.deposit_msg.body)
      [] what = "lead_id" -> loc.lead_id = ""
      [] what = "confirm" -> /\ ~Contains(<<"P">>, loc.confirm.body)
                             /\ ~Contains(<<"p">>, loc.confirm.body)

\* the values the message of the RuntimeError carries
CheckError(what) ==
    CASE what \in {"help", "stop", "start"} -> <<Expected(what), loc.last.body>>
      [] what \in {"pci", "deflect"} -> <<loc.last.body>>
      [] what = "http" -> <<loc.deposit_msg.body>>
      [] what = "confirm" -> <<loc.confirm.body>>
      [] OTHER -> <<>>

SuiteCheck ==
    /\ InSuite /\ Here.op = "check"
    /\ IF CheckFails(Here.check)
       THEN RaiseWith(CheckError(Here.check))
       ELSE Goto(NextLabel(pc)) /\ UNCHANGED hist
    /\ UNCHANGED <<transcript, nextId, backend, ids, capLen, call, em, env, loc>>

\* _last_inbound_message: the last message of role user and kind inbound
LastInbound(msgs) ==
    LET inb == {i \in 1..Len(msgs) : msgs[i].role = "user" /\ msgs[i].kind = "inbound"}
    IN  IF inb = {} THEN NoMsg ELSE msgs[CHOOSE i \in inb : \A j \in inb : i >= j]

\* mutant of InboundFails: only a missing inbound message fails
InboundFailsWhenMissing(inbound) == inbound = NoMsg

\* if inbound is None or inbound.body.strip() != "[REDACTED]": raise
InboundFails(inbound) == inbound = NoMsg \/ Strip(inbound.body) # Redacted

\* conversation_id, msgs = get_sms_transcript(...); the stored inbound message
\* must be "[REDACTED]"
SuiteInbound ==
    /\ InSuite /\ Here.op = "inbound"
    /\ \/ \E cid \in {"c1", ""} :
             LET inbound == LastInbound(transcript)
             IN  /\ cid = "" => backend.faults > 0
                 /\ IF InboundFails(inbound)
                    THEN Raise /\ UNCHANGED <<loc, backend>>
                    ELSE /\ loc' = [loc EXCEPT !.conversation_id = cid, !.inbound = inbound]
                         /\ backend' = [backend EXCEPT
                                           !.faults = IF cid = "" THEN @ - 1 ELSE @]
                         /\ Goto(NextLabel(pc))
                         /\ UNCHANGED hist
       \/ Raise /\ UNCHANGED <<loc, backend>>
    /\ UNCHANGED <<transcript, nextId, ids, capLen, call, em, env>>

\* assert_audit_event: COUNT(*) of the rows of the event type in the last 10
\* minutes, of this conversation when conversation_id is not empty.  db: no
\* client (run_psql returned None), a non-zero exit, output that is no integer,
\* or a count
SuiteAudit ==
    /\ InSuite /\ Here.op = "audit"
    /\ \E db \in {"none", "error", "garbage", "ok"}, mine \in 0..2, others \in 0..1 :
          LET count == IF loc.conversation_id # "" THEN mine ELSE mine + others
              odd == mine # 1 \/ others # 0
          IN  /\ db # "ok" => (mine = 1 /\ others = 0)
              /\ IF db # "ok" \/ count < 1
                 THEN Raise /\ UNCHANGED <<loc, backend>>
                 ELSE /\ odd => backend.faults > 0
                      /\ loc' = [loc EXCEPT !.audit = [db |-> db, count |-> mine, others |-> others]]
                      /\ backend' = [backend EXCEPT !.faults = IF odd THEN @ - 1 ELSE @]
                      /\ Goto(NextLabel(pc))
                      /\ UNCHANGED hist
    /\ UNCHANGED <<transcript, nextId, ids, capLen, call, em, env>>

InitSuite ==
    /\ \E n \in 0..1 :
          /\ transcript = [i \in 1..n |-> StoredMessage(
                               Shape("assistant", "ai_reply", <<"x">>), TRUE, i)]
          /\ nextId = n + 1
    /\ backend = [NoBackend EXCEPT !.faults = MaxFaults]
    /\ ids = {}
    /\ capLen = -1
    /\ call = IdleCall
    /\ em = NoEm
    /\ pc = "start"
    /\ env \in {[NoEnv EXCEPT !.demo_mode = d, !.first_contact_reply = f, !.skip_db_check = s] :
                   d \in BOOLEAN, f \in BOOLEAN, s \in BOOLEAN}
    /\ loc = NoLoc
    /\ hist = NoHist

NextSuite ==
    \/ SuitePrecheck
    \/ SuitePurge
    \/ SuiteCapture
    \/ SuiteEmit
    \/ SuiteCallStart
    \/ Poll
    \/ PollFetchFails
    \/ Deadline
    \/ SuiteCallDone
    \/ SuiteCheck
    \/ SuiteInbound
    \/ SuiteAudit
    \/ BackendReply
    \/ BackendFault

SpecSuite == InitSuite /\ [][NextSuite]_vars

-----------------------------------------------------------------------------
(* run_happy_path of e2e_with_video.py *)

DefaultAmount == 5000    \* DEPOSIT_AMOUNT_CENTS

OtherAmount == 7500      \* an amount that is not the default

Amounts == {DefaultAmount, OtherAmount}

None == <<"None">>       \* a JSON null

\* if getattr(base, "SKIP_DB_CHECK", False): raise
HappySkipCheck ==
    /\ InSuite /\ Here.op = "skipcheck"
    /\ IF env.skip_db_check THEN Raise ELSE Goto(NextLabel(pc)) /\ UNCHANGED hist
    /\ UNCHANGED <<transcript, nextId, backend, ids, capLen, call, em, env, loc>>

\* base.seed_hosted_number(): the value it returns is dropped
HappySeed ==
    /\ InSuite /\ Here.op = "seed"
    /\ \E db \in DbOutcomes : DbSoftFailure(db)
    /\ Goto(NextLabel(pc))
    /\ UNCHANGED <<transcript, nextId, ids, capLen, call, em, env, loc>>

\* lead = base.create_lead(); lead_id = (lead or {}).get("id"); the configured
\* amount is read.  created: the POST was answered 200/201 with a lead that has an id
HappyCreateLead ==
    /\ InSuite /\ Here.op = "create_lead"
    /\ \E created \in BOOLEAN :
          /\ ~created => backend.faults > 0
          /\ backend' = [backend EXCEPT !.faults = IF created THEN @ ELSE @ - 1]
          /\ loc' = [loc EXCEPT !.lead_id = IF created THEN "L1" ELSE "",
                                !.expected_amount_cents = DefaultAmount]
    /\ Goto(NextLabel(pc))
    /\ UNCHANGED <<transcript, nextId, ids, capLen, call, em, env, hist>>

HappyOutcomes == {200, 401, 403, 500, NoResponse}

\* if not base.send_telnyx_voice_webhook(...): raise, and the same for
\* send_square_payment_webhook (the emitter is named in the field mid)
HappyEmitChecked ==
    /\ InSuite /\ Here.op = "emit_checked"
    /\ \E http \in HappyOutcomes :
          LET ret == EmitterResult(Here.mid, http)
          IN  /\ hist' = [hist EXCEPT !.emits = @ + 1, !.lastText = Here.text,
                                      !.emitFailed = @ \/ ~ret,
                                      !.emitLen = Len(transcript),
                                      !.raisedAt = IF ret THEN @ ELSE pc]
              /\ pc' = IF ret THEN NextLabel(pc) ELSE "raised"
              /\ IF http = 200
                 THEN backend' = [backend EXCEPT !.turn = Here.text, !.pos = 0]
                 ELSE /\ ret => backend.faults > 0
                      /\ backend' = [backend EXCEPT !.turn = "", !.pos = 0,
                                        !.faults = IF ret THEN @ - 1 ELSE @]
    /\ UNCHANGED <<transcript, nextId, ids, capLen, call, em, env, loc>>

\* record_ai_latency raising whenever the ceiling is exceeded
HappyLatencyAlwaysStrict ==
    /\ InSuite /\ Here.op = "latency"
    /\ \E over \in BOOLEAN :
          /\ over => backend.faults > 0
          /\ backend' = [backend EXCEPT !.faults = IF over THEN @ - 1 ELSE @]
          /\ loc' = [loc EXCEPT !.timings = @ \cup {pc}]
          /\ IF over
             THEN /\ pc' = "raised"
                  /\ hist' = [hist EXCEPT !.raisedAt = pc, !.slow = TRUE]
             ELSE /\ Goto(NextLabel(pc))
                  /\ UNCHANGED hist
    /\ UNCHANGED <<transcript, nextId, ids, capLen, call, em, env>>

\* record_ai_latency: the time of the turn is stored, then compared; over: it
\* is greater than max_ai_seconds(), which the backend owes the harness not to
\* let happen
HappyLatency ==
    /\ InSuite /\ Here.op = "latency"
    /\ \E over \in BOOLEAN :
          /\ over => backend.faults > 0
          /\ backend' = [backend EXCEPT !.faults = IF over THEN @ - 1 ELSE @]
          /\ loc' = [loc EXCEPT !.timings = @ \cup {pc}]
          /\ IF over /\ env.fail_on_latency
             THEN /\ pc' = "raised"
                  /\ hist' = [hist EXCEPT !.raisedAt = pc, !.slow = TRUE]
             ELSE /\ Goto(NextLabel(pc))
                  /\ hist' = [hist EXCEPT !.slow = @ \/ over]
    /\ UNCHANGED <<transcript, nextId, ids, capLen, call, em, env>>

\* get_payment_id_for_lead of e2e_full_flow.py: None when run_psql returned None
\* or exited non-zero, and when no row came back
get_payment_id_for_lead(db) == IF db = "ok" THEN "P1" ELSE ""

\* the lookup of the payment id with its result left unchecked
HappyPaymentIdUnchecked ==
    /\ InSuite /\ Here.op = "payment_id"
    /\ \E db \in DbOutcomes \cup {"empty"} :
          loc' = [loc EXCEPT !.booking_intent_id = get_payment_id_for_lead(db)]
    /\ Goto(NextLabel(pc))
    /\ UNCHANGED <<transcript, nextId, backend, ids, capLen, call, em, env, hist>>

\* booking_intent_id = base.get_payment_id_for_lead(lead_id);
\* if not booking_intent_id: raise
HappyPaymentId ==
    /\ InSuite /\ Here.op = "payment_id"
    /\ \E db \in DbOutcomes \cup {"empty"} :
          LET id == get_payment_id_for_lead(db)
          IN  IF id = ""
              THEN Raise /\ UNCHANGED loc
              ELSE /\ loc' = [loc EXCEPT !.booking_intent_id = id]
                   /\ Goto(NextLabel(pc))
                   /\ UNCHANGED hist
    /\ UNCHANGED <<transcript, nextId, backend, ids, capLen, call, em, env>>

\* lines 674-685: the amount of the payment row replaces the configured one when
\* the query succeeds and prints something; every failure is passed over
HappyAmount ==
    /\ InSuite /\ Here.op = "amount"
    /\ \E db \in DbOutcomes \cup {"empty", "garbage"}, amount \in Amounts :
          /\ db # "ok" => amount = DefaultAmount
          /\ loc' = [loc EXCEPT !.expected_amount_cents = IF db = "ok" THEN amount ELSE @]
          /\ DbSoftFailure(IF db \in {"none", "error"} THEN db ELSE "ok")
    /\ Goto(NextLabel(pc))
    /\ UNCHANGED <<transcript, nextId, ids, capLen, call, em, env>>

\* the rows a query may print, as JSON objects; a text is a sequence of words in
\* which " " is whitespace, <<>> is the empty text
Rows(what) ==
    CASE what = "lead" ->
            [deposit_status : {<<"paid">>, <<"paid", " ">>, <<"pending">>, None},
             priority_level : {<<"priority">>, <<" ", "priority">>, <<"normal">>}]
      [] what = "pay" ->
            [status : {<<"succeeded">>, <<"pending">>},
             amount_cents : Amounts \cup {0},
             provider_ref : {<<"sq_1">>, <<" ">>, None}]
      [] what = "booking" ->
            [status : {<<"confirmed">>, <<"pending">>},
             confirmed_at : {<<"t1">>, <<>>, None}]

\* (value or "")
OrEmpty(v) == IF v = None THEN <<>> ELSE v

\* the checks on a row without the comparison of the amount
RowFailsIgnoringAmount(what, row) ==
    CASE what = "lead" ->
            \/ Strip(OrEmpty(row.deposit_status)) # <<"paid">>
            \/ Strip(OrEmpty(row.priority_level)) # <<"priority">>
      [] what = "pay" ->
            \/ Strip(OrEmpty(row.status)) # <<"succeeded">>
            \/ Strip(OrEmpty(row.provider_ref)) = <<>>
      [] what = "booking" ->
            \/ Strip(OrEmpty(row.status)) # <<"confirmed">>
            \/ row.confirmed_at \in {None, <<>>}

\* the checks on a row, in the order of lines 717-740
RowFails(what, row) ==
    CASE what = "lead" ->
            \/ Strip(OrEmpty(row.deposit_status)) # <<"paid">>
            \/ Strip(OrEmpty(row.priority_level)) # <<"priority">>
      [] what = "pay" ->
            \/ Strip(OrEmpty(row.status)) # <<"succeeded">>
            \/ row.amount_cents # loc.expected_amount_cents
            \/ Strip(OrEmpty(row.provider_ref)) = <<>>
      [] what = "booking" ->
            \/ Strip(OrEmpty(row.status)) # <<"confirmed">>
            \/ row.confirmed_at \in {None, <<>>}

\* query_row_json and the checks on the row it returns; db: run_psql returned
\* None, exited non-zero, printed nothing, printed what is no JSON, or a row
HappyQuery ==
    /\ InSuite /\ Here.op = "query"
    /\ \/ /\ \/ \E db \in DbOutcomes \cup {"empty", "garbage"} : db # "ok"
             \/ \E row \in Rows(Here.check) : RowFails(Here.check, row)
          /\ Raise
          /\ UNCHANGED loc
       \/ \E row \in Rows(Here.check) :
             /\ ~RowFails(Here.check, row)
             /\ loc' = CASE Here.check = "lead" -> [loc EXCEPT !.lead_row = row]
                         [] Here.check = "pay" -> [loc EXCEPT !.pay_row = row]
                         [] Here.check = "booking" -> [loc EXCEPT !.booking_row = row]
             /\ Goto(NextLabel(pc))
             /\ UNCHANGED hist
    /\ UNCHANGED <<transcript, nextId, backend, ids, capLen, call, em, env>>

\* (artifacts_dir / "timings.json").write_text(...); return out
HappyWrite ==
    /\ InSuite /\ Here.op = "write"
    /\ \E written \in BOOLEAN :
          IF written THEN Goto(NextLabel(pc)) /\ UNCHANGED hist ELSE Raise
    /\ UNCHANGED <<transcript, nextId, backend, ids, capLen, call, em, env, loc>>

InitHappy ==
    /\ \E n \in 0..1 :
          /\ transcript = [i \in 1..n |-> StoredMessage(
                               Shape("assistant", "ai_reply", <<"x">>), TRUE, i)]
          /\ nextId = n + 1
    /\ backend = [NoBackend EXCEPT !.faults = MaxFaults]
    /\ ids = {}
    /\ capLen = -1
    /\ call = IdleCall
    /\ em = NoEm
    /\ pc = "hp_start"
    /\ env \in {[NoEnv EXCEPT !.first_contact_reply = f, !.skip_db_check = s,
                              !.fail_on_latency = l] :
                   f \in BOOLEAN, s \in BOOLEAN, l \in BOOLEAN}
    /\ loc = NoLoc
    /\ hist = NoHist

NextHappy ==
    \/ HappySkipCheck
    \/ SuitePurge
    \/ HappySeed
    \/ HappyCreateLead
    \/ SuiteCapture
    \/ HappyEmitChecked
    \/ SuiteEmit
    \/ SuiteCallStart
    \/ Poll
    \/ PollFetchFails
    \/ Deadline
    \/ SuiteCallDone
    \/ SuiteCheck
    \/ HappyLatency
    \/ HappyPaymentId
    \/ HappyAmount
    \/ HappyQuery
    \/ HappyWrite
    \/ BackendReply
    \/ BackendFault

SpecHappy == InitHappy /\ [][NextHappy]_vars

-----------------------------------------------------------------------------
(* The configuration checks of the two entry points: main of e2e_with_video.py
   and run_e2e_test of e2e_full_flow.py.  The value of an environment variable
   is a text (a sequence of words, " " being whitespace) or Unset. *)

Unset == <<"unset">>

EnvValues == {Unset, <<>>, <<" ">>, <<"v">>}

DefaultCustomerPhone == <<"+15550001234">>

DefaultClinicPhone == <<"+18662894911">>

\* os.getenv(name, default)
getenv(value, default) == IF value = Unset THEN default ELSE value

\* require_env: value = (os.getenv(name) or "").strip(); if not value: raise
require_env(value) == Strip(getenv(value, <<>>))

\* the module constants of e2e_full_flow.py, computed when it is imported
TELNYX_WEBHOOK_SECRET == Strip(getenv(env.TELNYX_WEBHOOK_SECRET, <<>>))

TEST_CUSTOMER_PHONE == getenv(env.TEST_CUSTOMER_PHONE, DefaultCustomerPhone)

TEST_CLINIC_PHONE == getenv(env.TEST_CLINIC_PHONE, DefaultClinicPhone)

SMS_PROVIDER == Strip(getenv(env.SMS_PROVIDER, <<>>))

\* the variables main requires, in the order of lines 776-779
MainRequired ==
    << [at |-> "main_jwt", name |-> "ADMIN_JWT_SECRET"],
       [at |-> "main_secret", name |-> "TELNYX_WEBHOOK_SECRET"],
       [at |-> "main_customer", name |-> "TEST_CUSTOMER_PHONE"],
       [at |-> "main_clinic", name |-> "TEST_CLINIC_PHONE"] >>

\* main: one require_env(name) call
MainRequireEnv ==
    \E i \in 1..Len(MainRequired) :
       /\ pc = MainRequired[i].at
       /\ IF require_env(env[MainRequired[i].name]) = <<>>
          THEN Raise
          ELSE /\ pc' = IF i < Len(MainRequired) THEN MainRequired[i + 1].at
                                                 ELSE "main_provider"
               /\ UNCHANGED hist
       /\ UNCHANGED <<transcript, nextId, backend, ids, capLen, call, em, env, loc>>

\* main: if sms_provider != "telnyx": raise
MainProvider ==
    /\ pc = "main_provider"
    /\ IF SMS_PROVIDER # <<"telnyx">>
       THEN Raise
       ELSE pc' = "main_health" /\ UNCHANGED hist
    /\ UNCHANGED <<transcript, nextId, backend, ids, capLen, call, em, env, loc>>

\* run_e2e_test: if not TELNYX_WEBHOOK_SECRET: raise
E2eSecret ==
    /\ pc = "e2e_secret"
    /\ IF TELNYX_WEBHOOK_SECRET = <<>>
       THEN Raise
       ELSE pc' = "e2e_telnyx" /\ UNCHANGED hist
    /\ UNCHANGED <<transcript, nextId, backend, ids, capLen, call, em, env, loc>>

\* run_e2e_test: with E2E_REQUIRE_TELNYX or DEMO_MODE the provider must be
\* telnyx and the clinic number must not be the default one
E2eRequireTelnyx ==
    /\ pc = "e2e_telnyx"
    /\ IF /\ env.require_telnyx
          /\ \/ SMS_PROVIDER # <<"telnyx">>
             \/ TEST_CLINIC_PHONE = DefaultClinicPhone
       THEN Raise
       ELSE pc' = "e2e_health" /\ UNCHANGED hist
    /\ UNCHANGED <<transcript, nextId, backend, ids, capLen, call, em, env, loc>>

\* check_health: the first HTTP request of either entry point; main raises and
\* run_e2e_test exits when the API is not healthy
CheckHealth ==
    /\ pc \in {"main_health", "e2e_health"}
    /\ hist' = [hist EXCEPT !.http = @ + 1]
    /\ \E healthy \in BOOLEAN : pc' = IF healthy THEN "configured" ELSE "unhealthy"
    /\ UNCHANGED <<transcript, nextId, backend, ids, capLen, call, em, env, loc>>

InitConfig ==
    /\ transcript = <<>>
    /\ nextId = 1
    /\ backend = NoBackend
    /\ ids = {}
    /\ capLen = -1
    /\ call = IdleCall
    /\ em = NoEm
    /\ pc \in {"main_jwt", "e2e_secret"}
    /\ env \in [ADMIN_JWT_SECRET : {Unset, <<"v">>},
                TELNYX_WEBHOOK_SECRET : EnvValues,
                TEST_CUSTOMER_PHONE : EnvValues,
                TEST_CLINIC_PHONE : EnvValues \cup {DefaultClinicPhone},
                SMS_PROVIDER : {Unset, <<"telnyx">>, <<"twilio">>},
                require_telnyx : BOOLEAN]
    /\ loc = NoLoc
    /\ hist = NoHist

NextConfig ==
    \/ MainRequireEnv
    \/ MainProvider
    \/ E2eSecret
    \/ E2eRequireTelnyx
    \/ CheckHealth

SpecConfig == InitConfig /\ [][NextConfig]_vars

-----------------------------------------------------------------------------
(* run_psql of e2e_full_flow.py: one call.  env tells what is installed, loc
   holds the client processes the call has started and what it returned. *)

NoPsql == [procs |-> <<>>, ret |-> "unset", returncode |-> 0]

\* psql_args up to the SQL text
psql_args == IF env.tuples_only THEN <<"psql", "DATABASE_URL", "-t", "-c">>
                                ELSE <<"psql", "DATABASE_URL", "-c">>

\* docker_compose_cmd: <<>> stands for None
docker_compose_cmd ==
    IF env.docker THEN <<"docker", "compose">>
    ELSE IF env.docker_compose THEN <<"docker-compose">>
    ELSE <<>>

ReturnCodes == {0, 1, 2}

\* if SKIP_DB_CHECK: return None
PsqlSkip ==
    /\ pc = "psql_start"
    /\ IF env.skip_db_check
       THEN pc' = "psql_returned" /\ loc' = [loc EXCEPT !.ret = "None"]
       ELSE pc' = "psql_which" /\ UNCHANGED loc
    /\ UNCHANGED <<transcript, nextId, backend, ids, capLen, call, em, env, hist>>

\* the choice of the client with the fallback tried first
PsqlWhichDockerFirst ==
    /\ pc = "psql_which"
    /\ pc' = IF docker_compose_cmd # <<>> THEN "psql_docker"
             ELSE IF env.psql THEN "psql_local" ELSE "psql_compose"
    /\ UNCHANGED <<transcript, nextId, backend, ids, capLen, call, em, env, loc, hist>>

\* if shutil.which("psql") is not None
PsqlWhich ==
    /\ pc = "psql_which"
    /\ pc' = IF env.psql THEN "psql_local" ELSE "psql_compose"
    /\ UNCHANGED <<transcript, nextId, backend, ids, capLen, call, em, env, loc, hist>>

\* compose = docker_compose_cmd(); if compose is None: return None
PsqlCompose ==
    /\ pc = "psql_compose"
    /\ IF docker_compose_cmd = <<>>
       THEN pc' = "psql_returned" /\ loc' = [loc EXCEPT !.ret = "None"]
       ELSE pc' = "psql_docker" /\ UNCHANGED loc
    /\ UNCHANGED <<transcript, nextId, backend, ids, capLen, call, em, env, hist>>

\* return subprocess.run(args, ..., timeout=timeout): the process runs to its
\* exit code, or subprocess.run raises (the timeout expired, the program could
\* not be started)
PsqlRun ==
    /\ pc \in {"psql_local", "psql_docker"}
    /\ LET args == IF pc = "psql_local"
                   THEN psql_args
                   ELSE docker_compose_cmd \o <<"exec", "-T", "postgres">> \o psql_args
       IN  \E raises \in BOOLEAN, code \in ReturnCodes :
              /\ raises => code = 0
              /\ loc' = [loc EXCEPT !.procs = Append(@, args),
                                    !.ret = IF raises THEN @ ELSE "completed",
                                    !.returncode = code]
              /\ pc' = IF raises THEN "psql_raised" ELSE "psql_returned"
    /\ UNCHANGED <<transcript, nextId, backend, ids, capLen, call, em, env, hist>>

InitPsql ==
    /\ transcript = <<>>
    /\ nextId = 1
    /\ backend = NoBackend
    /\ ids = {}
    /\ capLen = -1
    /\ call = IdleCall
    /\ em = NoEm
    /\ pc = "psql_start"
    /\ env \in [skip_db_check : BOOLEAN, psql : BOOLEAN, docker : BOOLEAN,
                docker_compose : BOOLEAN, tuples_only : BOOLEAN]
    /\ loc = NoPsql
    /\ hist = NoHist

NextPsql ==
    \/ PsqlSkip
    \/ PsqlWhich
    \/ PsqlCompose
    \/ PsqlRun

SpecPsql == InitPsql /\ [][NextPsql]_vars

-----------------------------------------------------------------------------
(* Properties of the poller *)

\* the predicate as section 4.3 of the specification words it: exact kind or a
\* set of acceptable kinds, exact role or a set of roles, substring of body
KindOk(m, f) == IF f.kinds # {} THEN m.kind \in f.kinds ELSE f.kind = "" \/ m.kind = f.kind

RoleOk(m, f) == IF f.roles # {} THEN m.role \in f.roles ELSE f.role = "" \/ m.role = f.role

BodyOk(m, f) == f.contains = <<>> \/ Contains(f.contains, m.body)

Satisfies(m, f) == KindOk(m, f) /\ RoleOk(m, f) /\ BodyOk(m, f)

\* what an assert_* call must not see
Forbidden(c, m) ==
    /\ m.id \notin c.since
    /\ IF c.op = "assert_no_assistant" THEN m.role = "assistant" ELSE Satisfies(m, c.filt)

IsAssert(c) == c.op \in {"assert_none", "assert_no_assistant"}

\* C2 (as claimed): a cursor captured from all N messages, one message appended,
\* wait_for_new_message with that cursor and no filter: what it returns is the
\* appended message.
C2_CursorRoundTrip ==
    ( /\ pc = "poll_only"
      /\ call.op = "wait"
      /\ call.filt = NoFilter
      /\ call.status = "returned"
      /\ capLen >= 0
      /\ call.startLen = capLen + 1
      /\ Len(call.msgs) = capLen + 1 )
    => call.result = call.msgs[capLen + 1]

\* C3: a call of wait_for_new_message that has ended either returned a message of
\* the polled transcript that is outside the cursor and satisfies the predicate,
\* or raised; once the deadline has passed it has raised, and the diagnostic is
\* the last min(10, n) messages of the transcript polled last.
C3_WaitReturnsMatchOrRaises ==
    (call.op = "wait" /\ call.status # "polling") =>
        /\ call.status \in {"returned", "raised"}
        /\ call.status = "returned" =>
              /\ call.result \in Range(call.msgs)
              /\ call.result.id \notin call.since
              /\ Satisfies(call.result, call.filt)
        /\ (call.remaining <= 0 \/ call.timedOut) =>
              /\ call.status = "raised"
              /\ call.remaining <= 0
              /\ Len(call.sample) = Min(Len(call.msgs), TailLen)
              /\ \A i \in 1..Len(call.sample) :
                    call.sample[i] = call.msgs[Len(call.msgs) - Len(call.sample) + i]

\* a wait that timed out on a transcript of more than 10 messages, after polling
C3_Witness ==
    /\ call.op = "wait"
    /\ call.timedOut
    /\ call.polls >= 2
    /\ Len(call.msgs) > TailLen

\* C4: an assert_* call returns normally only after the whole window, and then no
\* poll of the window saw a forbidden message; while it is still polling no poll
\* has seen one (the first such poll raises at once, naming the message).
C4_AssertSilentWholeWindow ==
    IsAssert(call) =>
        /\ call.status = "returned" =>
              /\ call.remaining <= 0
              /\ \A i \in 1..Len(call.msgs) : ~Forbidden(call, call.msgs[i])
        /\ call.status = "polling" =>
              \A i \in 1..Len(call.msgs) : ~Forbidden(call, call.msgs[i])
        /\ (call.status = "raised" /\ call.result # NoMsg) =>
              /\ call.result \in Range(call.msgs)
              /\ Forbidden(call, call.result)

\* silent at the first poll, a forbidden message at the second: the call raises
C4_Witness ==
    /\ IsAssert(call)
    /\ call.status = "raised"
    /\ call.polls = 2
    /\ call.result # NoMsg
    /\ call.startLen < Len(call.msgs)

-----------------------------------------------------------------------------
(* Properties of run_compliance_suite *)

\* a poller call of the suite is under way at the statement pc names
CallActive == InSuite /\ call.at = pc /\ call.status = "polling"

\* C1 (as claimed): the cursor a poller call is given was captured before the
\* emission whose effects the call observes: exactly one emission, the last one,
\* came after the capture.
C1_CursorBeforeEmission ==
    CallActive => hist.capEmits + 1 = hist.emits

\* C5 (as claimed): a run in which an emitter reported failure (its return value
\* was False) does not complete.
C5_EmitFailureIsFatal ==
    pc = "done" => ~hist.emitFailed

Count(msgs, kind) == Cardinality({i \in 1..Len(msgs) : msgs[i].kind = kind})

\* C8 (as claimed): the first-contact phase is passed only if the transcript it
\* polled last holds fewer than two messages of kind first_contact_ack.
C8_TwoFirstContactAcksRaise ==
    (pc = "help_cap" /\ call.at = "fc2_wait")
    => Count(call.msgs, "first_contact_ack") < 2

\* the silent window after STOP has been asserted: the call at line 409 returned
\* at its deadline, after polling, its cursor was captured before the one
\* emission it observes, and its last poll shows no assistant message outside
\* that cursor
SilenceAsserted ==
    /\ call.at = "after_assert"
    /\ call.op = "assert_no_assistant"
    /\ call.status = "returned"
    /\ call.remaining <= 0
    /\ call.polls >= 1
    /\ call.since = ids
    /\ hist.capEmits + 1 = hist.emits
    /\ hist.lastText = "AFTER_STOP"
    /\ \A i \in 1..Len(call.msgs) :
          call.msgs[i].role = "assistant" => call.msgs[i].id \in call.since

\* the step that emits START
EmitsStart == hist'.emits = hist.emits + 1 /\ hist'.lastText = "START"

\* C9: the suite gets past line 409 only with the silent window asserted, and an
\* assistant message of any kind seen in the window raises there; START is
\* emitted only from the state in which the window has been asserted.
C9_SilenceBeforeStart ==
    /\ [](pc = "start_cap" => SilenceAsserted)
    /\ []((pc = "raised" /\ hist.raisedAt = "after_assert" /\ call.result # NoMsg)
            => (call.result.role = "assistant" /\ call.result.id \notin call.since))
    /\ [][EmitsStart => (pc = "start_emit" /\ call.at = "after_assert"
                          /\ call.status = "returned" /\ call.polls >= 1)]_vars

\* the window after STOP passed over a transcript that holds a new message (the
\* stored inbound one), and the suite is about to emit START
C9_Witness ==
    /\ pc = "start_emit"
    /\ call.at = "after_assert"
    /\ call.polls >= 2
    /\ \E i \in 1..Len(call.msgs) : call.msgs[i].id \notin call.since

\* C10 (as claimed): the PCI phase is passed only if the transcript polled last
\* holds no ai_reply at all: the phone was purged just before the card number
\* was sent, so any ai_reply in it belongs to that turn.
C10_NoAiReplyForCardTurn ==
    (pc = "med_purge" /\ call.at = "pci_assert")
    => Count(call.msgs, "ai_reply") = 0

\* C11: the suite completes only if the idempotency phase passed: the last two
\* emissions carried the same provider message id and different event ids, the
\* first was answered by an acknowledgment and an ai_reply (both are in the
\* cursor captured before the second), and the 6-second window after the second
\* ran to its deadline without a poll showing an assistant message outside that
\* cursor.
C11_DuplicateProducesNothing ==
    pc = "done" =>
        /\ call.at = "dup_assert"
        /\ call.op = "assert_no_assistant"
        /\ call.status = "returned"
        /\ call.remaining <= 0
        /\ call.polls >= 1
        /\ hist.lastMid = hist.prevMid
        /\ hist.lastEvt # hist.prevEvt
        /\ call.since = ids
        /\ hist.capEmits + 1 = hist.emits
        /\ \E i \in 1..Len(call.msgs) :
              /\ call.msgs[i].id \in call.since
              /\ call.msgs[i].role = "assistant"
              /\ call.msgs[i].kind \in {"ack", "first_contact_ack"}
        /\ \E i \in 1..Len(call.msgs) :
              call.msgs[i].id \in call.since /\ call.msgs[i].kind = "ai_reply"
        /\ \A i \in 1..Len(call.msgs) :
              call.msgs[i].role = "assistant" => call.msgs[i].id \in call.since

\* a run against a backend that kept its contract throughout has completed, the
\* last window polled twice
C11_Witness ==
    /\ pc = "done"
    /\ backend.faults = MaxFaults
    /\ call.at = "dup_assert"
    /\ call.polls >= 2
    /\ Len(call.msgs) = 3

\* C12 (as claimed): the audit check of the medical-advice phase and of the PHI
\* phase is passed only when the recent rows of the event type that belong to
\* the conversation of the phase (loc.audit.count) are exactly one.
C12_ExactlyOneScopedAuditRow ==
    pc \in {"phi_purge", "dup_purge"} =>
        /\ loc.audit.db = "ok"
        /\ loc.audit.count = 1

\* what C13 and its amended form share: past the check of lines 493-496 (and 523-526)
\* the deflecting reply has been observed and the inbound message held in the
\* local is the last message of role user and kind inbound of the transcript
RedactionChecked ==
    /\ loc.last.kind = "ai_reply"
    /\ Contains(Deflection, Lower(loc.last.body))
    /\ loc.inbound # NoMsg
    /\ loc.inbound = LastInbound(transcript)

PastCheck(what) ==
    CASE what = "help" -> pc = "stop_cap" /\ loc.last.kind = "help_ack"
      [] what = "stop" -> pc = "after_cap" /\ loc.last.kind = "stop_ack"
      [] what = "start" -> pc \in {"dstop_cap", "pci_purge"} /\ loc.last.kind = "start_ack"

\* the suite raised at a check of the HELP, STOP or START reply
TextMismatchRaised ==
    pc = "raised" /\ hist.raisedAt \in {"help_check", "stop_check", "start_check", "yes_check"}

C15_YesTriggersNoAiReply ==
    (env.demo_mode /\ pc = "pci_purge" /\ call.at = "yes_assert") =>
        \A i \in (hist.emitLen + 1)..Len(call.msgs) : call.msgs[i].kind # "ai_reply"

-----------------------------------------------------------------------------
(* Properties of run_happy_path *)

QueryLabels == {"hp_lead_row", "hp_pay_row", "hp_booking_row"}

\* the payment-completed webhook has been emitted
SquareEmitted == hist.lastText = "SQUARE"

\* one of the three row assertions is being, or has been, evaluated
RowsEvaluated ==
    \/ pc \in QueryLabels
    \/ hist.raisedAt \in QueryLabels
    \/ loc.lead_row # <<>>

\* C16: in run_happy_path the payment-completed webhook is emitted only after a
\* deposit_link message (with an HTTP URL) was observed and the payment id was
\* resolved for the lead; the row assertions on lead, payment and booking are
\* evaluated only after a payment_confirmation message was observed; and once a
\* step has raised (a failed wait included) no later step runs.
C16_HappyPathOrdering ==
    /\ [](SquareEmitted =>
             /\ loc.deposit_msg.kind = "deposit_link"
             /\ Contains(Http, loc.deposit_msg.body)
             /\ loc.lead_id # ""
             /\ loc.booking_intent_id # "")
    /\ [](RowsEvaluated =>
             /\ SquareEmitted
             /\ loc.confirm.kind = "payment_confirmation")
    /\ [][pc = "raised" => FALSE]_vars

\* the whole happy path ran: the webhook went out, the confirmation was seen and
\* the three rows passed
C16_Witness ==
    /\ pc = "done"
    /\ SquareEmitted
    /\ loc.confirm.kind = "payment_confirmation"
    /\ loc.booking_row # <<>>

\* run_happy_path has returned
HappyReturned == pc = "done" /\ SquareEmitted

-----------------------------------------------------------------------------
(* Properties of the configuration checks *)

\* a value that is missing or empty
Blank(value) == Strip(getenv(value, <<>>)) = <<>>

\* C18: when the Telnyx shared secret or a required phone number is missing or
\* empty, main of e2e_with_video.py and run_e2e_test raise before any HTTP
\* request is made: no request goes out under such a configuration.
C18_ConfigErrorsFatalBeforeNetwork ==
    hist.http > 0 =>
        /\ ~Blank(env.TELNYX_WEBHOOK_SECRET)
        /\ ~Blank(env.TEST_CUSTOMER_PHONE)
        /\ ~Blank(env.TEST_CLINIC_PHONE)

-----------------------------------------------------------------------------
(* Properties of the database-dependent steps *)

\* C19: in run_compliance_suite and run_happy_path, when the database cannot be
\* reached (run_psql returns None or the query exits non-zero) every
\* database-dependent step raises: the sequencer never completes with such a
\* step passed over.
C19_DbUnavailableIsFatal == pc = "done" => hist.dbSoft = 0

-----------------------------------------------------------------------------
(* Properties of run_psql *)

\* neither the local client nor a containerized fallback is installed
NoClient == ~env.psql /\ ~env.docker /\ ~env.docker_compose

\* C20: run_psql uses the local client when one is present, otherwise the
\* containerized fallback when docker (or docker-compose) is present; it returns
\* None exactly when neither is present or database checks are disabled; and it
\* starts at most one client process per call.
C20_ClientResolution ==
    /\ Len(loc.procs) <= 1
    /\ loc.procs # <<>> =>
          /\ ~env.skip_db_check
          /\ IF env.psql
             THEN loc.procs[1] = psql_args
             ELSE /\ ~NoClient
                  /\ loc.procs[1] = docker_compose_cmd \o <<"exec", "-T", "postgres">>
                                       \o psql_args
    /\ pc = "psql_returned" =>
          /\ loc.ret = "None" <=> (env.skip_db_check \/ NoClient)
          /\ loc.ret = "completed" <=> Len(loc.procs) = 1

\* a call answered by the fallback while docker and docker-compose are both there
C20_Witness ==
    /\ pc = "psql_returned"
    /\ ~env.psql /\ env.docker /\ env.docker_compose
    /\ loc.ret = "completed"
    /\ loc.procs[1][1] = "docker"

-----------------------------------------------------------------------------
(* Properties of purge_phone *)

PurgeLabels == {Steps[i].at : i \in {j \in 1..Len(Steps) : Steps[j].op = "purge"}}

\* C21: purge_phone treats the response codes 200, 204 and 404 as success and
\* raises only for other status codes, so a purge of a phone that has no data
\* yet does not stop the scenario.
C21_PurgeAccepts404 ==
    hist.raisedAt \in PurgeLabels => hist.status \notin {200, 204, 404}

-----------------------------------------------------------------------------
(* Termination of the pollers *)

\* C25: every call of wait_for_new_message, assert_no_new_messages and
\* assert_no_new_assistant_messages terminates (returns or raises), provided
\* each transcript fetch returns; time passes for a call only in an iteration
\* that found nothing and sleeps, and no iteration starts once the deadline has
\* passed.
C25_EveryCallTerminates ==
    /\ (call.status = "polling") ~> (call.status \in {"returned", "raised"})
    /\ [][(call.status = "polling" /\ call'.remaining # call.remaining) =>
             /\ call.remaining > 0
             /\ call'.status = "polling"
             /\ call'.polls = call.polls + 1
             /\ call'.remaining = call.remaining - PollS]_vars

\* a wait that polled as long as it could and then raised at its deadline
C25_Witness ==
    /\ pc = "poll_only"
    /\ call.op = "wait"
    /\ call.status = "raised"
    /\ call.timedOut
    /\ call.polls >= 2

-----------------------------------------------------------------------------
(* Properties of record_ai_latency *)

LatencyLabels == {"hp_sms1_latency", "hp_sms2_latency", "hp_sms3_latency"}

\* the statement the run is at, or raised at
Position == IF pc = "raised" THEN hist.raisedAt ELSE pc

\* record_ai_latency was called at l
LatencyCalled(l) ==
    \/ pc = "done"
    \/ pc = "raised" /\ hist.raisedAt = l
    \/ Position \in Labels /\ IndexOf(Position) > IndexOf(l)

\* C26: the latency of each of the three SMS turns of run_happy_path is
\* recorded; a turn over the ceiling raises in strict mode and lets the run go
\* on in lenient mode; a turn within the ceiling never raises for latency.
C26_LatencyStrictOrLenient ==
    /\ \A l \in LatencyLabels : LatencyCalled(l) => l \in loc.timings
    /\ hist.raisedAt \in LatencyLabels => (env.fail_on_latency /\ hist.slow)
    /\ (hist.slow /\ env.fail_on_latency) =>
          (pc = "raised" /\ hist.raisedAt \in LatencyLabels)

\* a lenient run that had a slow turn and still returned, three timings recorded
C26_Witness ==
    /\ pc = "done"
    /\ SquareEmitted
    /\ hist.slow
    /\ ~env.fail_on_latency
    /\ loc.timings = LatencyLabels

-----------------------------------------------------------------------------
(* What wait_for_new_message returns *)

\* m is outside the cursor of the call
Outside(c, m) == ~(m.id # EmptyId /\ m.id \in c.since)

\* m passes every filter that was given
PassesEveryFilter(m, f) ==
    /\ f.kinds # {} => m.kind \in f.kinds
    /\ f.kind # "" => m.kind = f.kind
    /\ f.roles # {} => m.role \in f.roles
    /\ f.role # "" => m.role = f.role
    /\ f.contains # <<>> => Contains(f.contains, m.body)

WaitReturned == pc = "poll_only" /\ call.op = "wait" /\ call.status = "returned"

\* C27 as stated: wait_for_new_message returns the first message, in the order
\* of the transcript of the poll that found it, that is outside the cursor and
\* satisfies every given filter; a message failing any given filter is never
\* returned.
C27_ReturnsFirstPassingEveryFilter ==
    WaitReturned =>
        \E i \in 1..Len(call.msgs) :
            /\ call.result = call.msgs[i]
            /\ Outside(call, call.msgs[i])
            /\ PassesEveryFilter(call.msgs[i], call.filt)
            /\ \A j \in 1..(i - 1) :
                  ~(Outside(call, call.msgs[j]) /\ PassesEveryFilter(call.msgs[j], call.filt))

\* C27, amended: wait_for_new_message returns the first message, in the order of
\* the transcript of the poll that found it, that is outside the cursor and
\* passes the filters, where a given set of kinds (roles) replaces the exact
\* kind (role): the exact value is compared only when no set is given.
C27_ReturnsFirstPassingSetOverExact ==
    WaitReturned =>
        \E i \in 1..Len(call.msgs) :
            /\ call.result = call.msgs[i]
            /\ Outside(call, call.msgs[i])
            /\ Satisfies(call.msgs[i], call.filt)
            /\ \A j \in 1..(i - 1) :
                  ~(Outside(call, call.msgs[j]) /\ Satisfies(call.msgs[j], call.filt))

\* a wait given a set of kinds and an exact kind returned a message of the set
\* that is not of the exact kind, passing over an earlier new message
C27_Witness ==
    /\ WaitReturned
    /\ call.filt.kinds # {} /\ call.filt.kind # ""
    /\ call.result.kind # call.filt.kind
    /\ \E i \in 1..Len(call.msgs), j \in 1..Len(call.msgs) :
          /\ call.msgs[i] = call.result
          /\ j < i
          /\ Outside(call, call.msgs[j])

\* ---------------------------------------------------------------------------
\* Identifiers of the emitted SMS webhooks (run_compliance_suite)
\* ---------------------------------------------------------------------------

\* The two emissions of the idempotency phase, which share dup_id.
DupLabels == {"dup_emit1", "dup_emit2"}

\* C28: within one run of run_compliance_suite the wrapper event ids of the
\* emitted SMS webhooks are pairwise distinct, and the provider message ids
\* are pairwise distinct except for the one deliberate pair of the
\* idempotency phase.
C28_IdsDistinctExceptDupPair ==
    \A i, j \in 1..Len(hist.log) :
        i < j =>
            /\ hist.log[i].evt # hist.log[j].evt
            /\ hist.log[i].mid = hist.log[j].mid
                   => {hist.log[i].at, hist.log[j].at} = DupLabels

\* A demo run that made every emission, the repeated message id included.
C28_Witness ==
    /\ pc = "done"
    /\ env.demo_mode
    /\ \E i, j \in 1..Len(hist.log) :
          /\ i < j
          /\ hist.log[i].mid = hist.log[j].mid
          /\ hist.log[i].evt # hist.log[j].evt
    /\ \E i \in 1..Len(hist.log) : hist.log[i].at = "yes_emit"

\* ---------------------------------------------------------------------------
\* Opt-out hygiene of run_compliance_suite
\* ---------------------------------------------------------------------------

OptOut == {"STOP"}

OptIn == {"START", "YES"}

\* the statements from the PCI phase to the end of the suite
LatePhase == {"done"} \cup {Program[i].at : i \in IndexOf("pci_purge")..Len(Program)}

\* the k-th emission opted the phone back in and a wait that began after it
\* returned a start_ack
OptedBackIn(k) ==
    /\ hist.log[k].text \in OptIn
    /\ [n |-> k, kind |-> "start_ack"] \in hist.seen

\* C29: run_compliance_suite reaches its PCI, medical, PHI and idempotency
\* phases, and its end, only when every STOP it emitted was followed by a START
\* or YES whose start_ack was observed, so that the last opt keyword sent is
\* never STOP.
C29_NoLatePhaseWhileOptedOut ==
    Position \in LatePhase =>
        /\ \A i \in 1..Len(hist.log) :
              hist.log[i].text \in OptOut =>
                  \E k \in (i + 1)..Len(hist.log) : OptedBackIn(k)
        /\ \A i \in 1..Len(hist.log) :
              (hist.log[i].text \in OptOut \cup OptIn
               /\ \A j \in (i + 1)..Len(hist.log) : hist.log[j].text \notin OptOut \cup OptIn)
                  => OptedBackIn(i)

\* A demo run in the PCI phase: STOP, START, STOP and YES were all emitted.
C29_Witness ==
    /\ pc = "pci_purge"
    /\ env.demo_mode
    /\ Cardinality({i \in 1..Len(hist.log) : hist.log[i].text \in OptOut}) = 2
    /\ \E k \in 1..Len(hist.log) : hist.log[k].text = "YES" /\ OptedBackIn(k)

-----------------------------------------------------------------------------
(* TestResults and run_all_tests (e2e_extended_scenarios.py)                *)
(* loc holds the TestResults object, env the --test argument, hist the      *)
(* running test, the arguments of the last record call and the outcome.     *)

\* record calls per run
MaxRecords == 3

\* the keys of the tests dict, in order
Tests ==
    << "twilio", "onboarding", "square", "booking", "leads", "dashboard", "errors",
       "quiet_hours", "leads_detail", "conversations", "square_admin", "ten_dlc",
       "hosted_orders", "messaging", "admin_clinic" >>

\* TestResults.__init__
TestResults == [passed |-> 0, failed |-> 0, skipped |-> 0, details |-> <<>>]

\* Variant: passed is looked at before skipped.
recordPassedFirst(self, name, passed, message, skipped) ==
    LET status == IF passed THEN "PASSED" ELSE IF skipped THEN "SKIPPED" ELSE "FAILED"
    IN  [self EXCEPT !.skipped = IF status = "SKIPPED" THEN @ + 1 ELSE @,
                     !.passed = IF status = "PASSED" THEN @ + 1 ELSE @,
                     !.failed = IF status = "FAILED" THEN @ + 1 ELSE @,
                     !.details = Append(@, [name |-> name, status |-> status,
                                            message |-> message])]

\* TestResults.record
record(self, name, passed, message, skipped) ==
    LET status == IF skipped THEN "SKIPPED" ELSE IF passed THEN "PASSED" ELSE "FAILED"
    IN  [self EXCEPT !.skipped = IF status = "SKIPPED" THEN @ + 1 ELSE @,
                     !.passed = IF status = "PASSED" THEN @ + 1 ELSE @,
                     !.failed = IF status = "FAILED" THEN @ + 1 ELSE @,
                     !.details = Append(@, [name |-> name, status |-> status,
                                            message |-> message])]

\* TestResults.summary: its return value
summary(self) == self.failed = 0

\* sys.exit(code) of the __main__ block
Exit(code) == pc' = "rs_exit" /\ hist' = [hist EXCEPT !.exit = <<code>>]

\* GET /health: anything but a 200 answer returns 1 before any test runs
ResultsHealth ==
    /\ pc = "rs_health"
    /\ \E status \in {200, 500, NoResponse} :
          IF status = 200
          THEN pc' = "rs_select" /\ UNCHANGED hist
          ELSE Exit(1)
    /\ UNCHANGED <<transcript, nextId, backend, ids, capLen, call, em, env, loc>>

\* `if specific_test:`: one test, an unknown name (return 1), or all tests
ResultsSelect ==
    /\ pc = "rs_select"
    /\ IF env.specific_test = ""
       THEN pc' = "rs_test" /\ hist' = [hist EXCEPT !.test = 1]
       ELSE IF \E i \in 1..Len(Tests) : Tests[i] = env.specific_test
            THEN /\ pc' = "rs_test"
                 /\ hist' = [hist EXCEPT
                       !.test = CHOOSE i \in 1..Len(Tests) : Tests[i] = env.specific_test]
            ELSE Exit(1)
    /\ UNCHANGED <<transcript, nextId, backend, ids, capLen, call, em, env, loc>>

\* the running test function calls results.record
ResultsRecord ==
    /\ pc = "rs_test"
    /\ hist.calls < MaxRecords
    /\ \E passed \in BOOLEAN, skipped \in BOOLEAN :
          /\ loc' = record(loc, Tests[hist.test], passed, "", skipped)
          /\ hist' = [hist EXCEPT !.calls = @ + 1,
                                  !.last = [passed |-> passed, skipped |-> skipped]]
    /\ UNCHANGED <<transcript, nextId, backend, ids, capLen, call, em, pc, env>>

\* the running test function returns: the next one of the loop, or the summary
ResultsReturn ==
    /\ pc = "rs_test"
    /\ IF env.specific_test = "" /\ hist.test < Len(Tests)
       THEN pc' = "rs_test" /\ hist' = [hist EXCEPT !.test = @ + 1]
       ELSE pc' = "rs_summary" /\ UNCHANGED hist
    /\ UNCHANGED <<transcript, nextId, backend, ids, capLen, call, em, env, loc>>

\* the running test function raises: the loop over all tests records the crash
\* as a failure and goes on; a test run by name is not wrapped, and the
\* exception ends the process with status 1
ResultsCrash ==
    /\ pc = "rs_test"
    /\ IF env.specific_test = ""
       THEN /\ hist.calls < MaxRecords
            /\ loc' = record(loc, Tests[hist.test], FALSE, "Crashed", FALSE)
            /\ IF hist.test < Len(Tests)
               THEN pc' = "rs_test"
               ELSE pc' = "rs_summary"
            /\ hist' = [hist EXCEPT !.calls = @ + 1,
                                    !.last = [passed |-> FALSE, skipped |-> FALSE],
                                    !.test = IF @ < Len(Tests) THEN @ + 1 ELSE @]
       ELSE Exit(1) /\ UNCHANGED loc
    /\ UNCHANGED <<transcript, nextId, backend, ids, capLen, call, em, env>>

\* success = results.summary(); return 0 if success else 1
ResultsSummary ==
    /\ pc = "rs_summary"
    /\ pc' = "rs_exit"
    /\ hist' = [hist EXCEPT !.success = <<summary(loc)>>,
                            !.exit = <<IF summary(loc) THEN 0 ELSE 1>>]
    /\ UNCHANGED <<transcript, nextId, backend, ids, capLen, call, em, env, loc>>

InitResults ==
    /\ transcript = <<>>
    /\ nextId = 1
    /\ backend = NoBackend
    /\ ids = {}
    /\ capLen = -1
    /\ call = IdleCall
    /\ em = NoEm
    /\ pc = "rs_health"
    /\ env \in [specific_test : {"", "twilio", "messaging", "nonesuch"}]
    /\ loc = TestResults
    /\ hist = [calls |-> 0, test |-> 0, last |-> [passed |-> FALSE, skipped |-> FALSE],
               success |-> <<>>, exit |-> <<>>]

NextResults ==
    \/ ResultsHealth
    \/ ResultsSelect
    \/ ResultsRecord
    \/ ResultsReturn
    \/ ResultsCrash
    \/ ResultsSummary

SpecResults == InitResults /\ [][NextResults]_vars

\* how many details carry the status
DetailsWith(status) ==
    Cardinality({i \in 1..Len(loc.details) : loc.details[i].status = status})

\* the status the last record call had to give
LastStatus ==
    IF hist.last.skipped THEN "SKIPPED" ELSE IF hist.last.passed THEN "PASSED" ELSE "FAILED"

\* C30 (as claimed): the counters are consistent, and run_all_tests exits 0
\* exactly when failed is 0.
C30_ExitZeroIffNoFailure ==
    /\ loc.passed + loc.failed + loc.skipped = Len(loc.details)
    /\ pc = "rs_exit" => (hist.exit = <<0>> <=> loc.failed = 0)

\* C30 (amended): every record call adds one detail and one to the counter of
\* its status, skipped going before passed, so that the three counters add up
\* to the number of details; a run that reaches summary reports success and
\* exits 0 exactly when failed is 0, and a run that does not reach it (health
\* check failed, unknown test name, a test run by name raised) exits 1.
C30_CountersConsistentAndExitAfterSummary ==
    /\ Len(loc.details) = hist.calls
    /\ loc.passed = DetailsWith("PASSED")
    /\ loc.failed = DetailsWith("FAILED")
    /\ loc.skipped = DetailsWith("SKIPPED")
    /\ loc.passed + loc.failed + loc.skipped = Len(loc.details)
    /\ hist.calls > 0 => loc.details[Len(loc.details)].status = LastStatus
    /\ hist.success # <<>> =>
          /\ hist.success = <<loc.failed = 0>>
          /\ hist.exit = <<0>> <=> loc.failed = 0
    /\ (pc = "rs_exit" /\ hist.success = <<>>) => hist.exit = <<1>>

\* A run of all tests that recorded one result of each status, the skipped one
\* with passed set, and ended after the summary.
C30_Witness ==
    /\ pc = "rs_exit"
    /\ hist.success = <<FALSE>>
    /\ loc.passed = 1 /\ loc.failed = 1 /\ loc.skipped = 1
    /\ hist.last = [passed |-> TRUE, skipped |-> TRUE]

====
